---- MODULE Spec2Model ----
(***************************************************************************)
(* tokenmeter: usage tracker, budget manager and alert manager.            *)
(*                                                                         *)
(* Units.  Money is a Decimal in the code; here it is an integer number of *)
(* 10^-8 dollars, so that every price of the table and every cost of the   *)
(* token counts used below is exact.  A threshold percentage is a float in *)
(* the code; here it is the integer number of percents (0.5 -> 50).  A     *)
(* utilization is the float spent/limit; here it is the exact ratio        *)
(* [num, den], compared by cross-multiplication.  For the amounts used     *)
(* below two different ratios differ by far more than a float rounding.    *)
(* Time is counted in hours since Sunday 2021-05-30 00:00 (hour 0), so     *)
(* that hour 24 is Monday 00:00 and hour 48 is Tuesday 2021-06-01 00:00.   *)
(***************************************************************************)
EXTENDS Integers, Sequences, FiniteSets, TLC

VARIABLES
    budgets,      \* BudgetManager._budgets: the ordered list of BudgetConfig
    records,      \* MemoryStorage._records: the stored UsageRecords
    created,      \* number of UsageRecords created so far (source of the ids)
    thresholds,   \* AlertManager._thresholds
    callbacks,    \* AlertManager._callbacks, in registration order
    jsonl,        \* the file of a JsonFileStorage: absent, or its lines
    db,           \* the usage_records table of a SQLiteStorage, in rowid order
    lock,         \* the holder of the lock of each store, None when free
    threads,      \* the threads calling a store: position, call and locals
    default_user_id, \* Meter._default_user_id, given at construction
    now,          \* the wall clock read by datetime.now()
    ret,          \* the last operation: its name, arguments, result or error
    calls,        \* callback invocations made by the last operation, in order
    stderr        \* lines the last operation wrote to sys.stderr, in order

vars == <<budgets, records, created, thresholds, callbacks, jsonl, db, lock, threads,
          default_user_id, now, ret, calls, stderr>>

\* The settings of the Meter, the persistent stores, and the threads with
\* the locks.
meter == <<default_user_id>>
files == <<jsonl, db>>
conc == <<lock, threads>>

\* ------------------------------------------------------------------ bounds
MaxBudgets == 2
MaxRecords == 2
MaxThresholds == 2
MaxCallbacks == 2
MaxNow == 3
MaxSaved == 2
MaxCalls == 3

\* ------------------------------------------------------------------ values
\* Python's None for an optional string.  An optional number (a datetime, a
\* price) is the empty tuple when absent and <<x>> when present.
None == "None"
Absent == <<>>
Some(x) == <<x>>
Val(o) == o[1]

ValidPeriods == {"session", "daily", "weekly", "monthly", "total"}
ValidActions == {"warn", "block"}

RECURSIVE SumSeq(_)
SumSeq(s) == IF s = <<>> THEN 0 ELSE Head(s) + SumSeq(Tail(s))

Max(a, b) == IF a >= b THEN a ELSE b

\* --------------------------------------------------------------- pricing
\* Prices per million tokens in dollars times 100 (3.00 -> 300), which is
\* the price of one token in 10^-8 dollars.  Absent: the category has no
\* price.
PricingTable ==
    [m \in {"claude-sonnet-4-5", "gpt-4o"} |->
        IF m = "claude-sonnet-4-5"
        THEN [provider |-> "anthropic", input |-> Some(300),
              output |-> Some(1500), cache_read |-> Some(30),
              cache_write |-> Some(375)]
        ELSE [provider |-> "openai", input |-> Some(250),
              output |-> Some(1000), cache_read |-> Some(125),
              cache_write |-> Absent]]

Aliases ==
    [a \in {"claude-sonnet-4-5-20250929", "chatgpt-4o-latest"} |->
        IF a = "claude-sonnet-4-5-20250929" THEN "claude-sonnet-4-5" ELSE "gpt-4o"]

\* str.lower, on the spellings used below; every other string used here has
\* no upper-case letter.
lower(s) ==
    CASE s = "Claude-Sonnet-4-5-20250929 " -> "claude-sonnet-4-5-20250929 "
      [] s = "Claude-Sonnet-4-5-20250929"  -> "claude-sonnet-4-5-20250929"
      [] s = " GPT-4o"                     -> " gpt-4o"
      [] s = "GPT-4o"                      -> "gpt-4o"
      [] s = " Mystery-1 "                 -> " mystery-1 "
      [] s = "Mystery-1"                   -> "mystery-1"
      [] s = "GPT 4o"                      -> "gpt 4o"
      [] OTHER                             -> s

\* str.strip, on the spellings used below; every other string used here has
\* no white space at either end.
strip(s) ==
    CASE s = "Claude-Sonnet-4-5-20250929 " -> "Claude-Sonnet-4-5-20250929"
      [] s = "claude-sonnet-4-5-20250929 " -> "claude-sonnet-4-5-20250929"
      [] s = " GPT-4o"                     -> "GPT-4o"
      [] s = " gpt-4o"                     -> "gpt-4o"
      [] s = " Mystery-1 "                 -> "Mystery-1"
      [] s = " mystery-1 "                 -> "mystery-1"
      [] OTHER                             -> s

\* Mutant of Resolve: a name that is no alias falls back to a default model.
Resolve_with_default(model) ==
    LET normalized == strip(lower(model))
    IN  IF normalized \in DOMAIN Aliases THEN Aliases[normalized]
        ELSE IF normalized \in DOMAIN PricingTable THEN normalized ELSE "gpt-4o"

\* PricingRegistry._resolve: the model string in lower case and stripped,
\* then the alias lookup with that string as the fallback.
Resolve(model) ==
    LET normalized == strip(lower(model))
    IN  IF normalized \in DOMAIN Aliases THEN Aliases[normalized] ELSE normalized

KnownModel(model) == Resolve(model) \in DOMAIN PricingTable

\* cost._tokens_to_cost
tokens_to_cost(tokens, price) ==
    IF tokens <= 0 \/ price = Absent THEN 0 ELSE tokens * Val(price)

\* CostCalculator.calculate_detailed, for a model with a pricing entry
calculate_detailed(model, inTok, outTok, crTok, cwTok) ==
    LET p  == PricingTable[Resolve(model)]
        ic == tokens_to_cost(inTok, p.input)
        oc == tokens_to_cost(outTok, p.output)
        rc == tokens_to_cost(crTok, p.cache_read)
        wc == tokens_to_cost(cwTok, p.cache_write)
    IN  [input_cost |-> ic, output_cost |-> oc, cache_read_cost |-> rc,
         cache_write_cost |-> wc, total_cost |-> ic + oc + rc + wc]

\* Mutant of compute: the cache-write cost is left out of the total.
compute_without_cache_write(p, inTok, outTok, crTok, cwTok) ==
    ((0 + tokens_to_cost(inTok, p.input)) + tokens_to_cost(outTok, p.output))
        + tokens_to_cost(crTok, p.cache_read)

\* CostCalculator._compute: the running total, from Decimal("0")
compute(p, inTok, outTok, crTok, cwTok) ==
    (((0 + tokens_to_cost(inTok, p.input)) + tokens_to_cost(outTok, p.output))
        + tokens_to_cost(crTok, p.cache_read)) + tokens_to_cost(cwTok, p.cache_write)

\* CostCalculator.calculate, for a model with a pricing entry
calculate(model, inTok, outTok, crTok, cwTok) ==
    compute(PricingTable[Resolve(model)], inTok, outTok, crTok, cwTok)

\* Provider.matches_response: the name of the provider occurs in the module
\* name of the type of the response.
matches_response(name, response) ==
    CASE name = "anthropic" -> response.module \in {"anthropic.types.message"}
      [] name = "openai"    -> response.module \in {"openai.types.chat"}
      [] OTHER              -> FALSE

\* ProviderRegistry.detect: the first registered provider that matches, the
\* built-in ones being registered in this order; None stands for ValueError.
Providers == <<"anthropic", "openai">>
detect(response) ==
    IF \E i \in 1..Len(Providers) : matches_response(Providers[i], response)
    THEN Providers[CHOOSE i \in 1..Len(Providers) :
                     /\ matches_response(Providers[i], response)
                     /\ \A j \in 1..(i - 1) : ~matches_response(Providers[j], response)]
    ELSE None

\* AnthropicProvider.extract_usage and OpenAIProvider.extract_usage: the
\* cache counts are put in the result only when present and not zero, and
\* OpenAI has no cache-write count.
extract_usage(name, response) ==
    LET cr   == IF response.cache_read # Absent /\ Val(response.cache_read) # 0
                THEN {"cache_read_tokens"} ELSE {}
        cw   == IF name = "anthropic" /\ response.cache_write # Absent
                   /\ Val(response.cache_write) # 0
                THEN {"cache_write_tokens"} ELSE {}
    IN  [k \in {"input_tokens", "output_tokens"} \cup cr \cup cw |->
            CASE k = "input_tokens"      -> response.input
              [] k = "output_tokens"     -> response.output
              [] k = "cache_read_tokens" -> Val(response.cache_read)
              [] OTHER                   -> Val(response.cache_write)]

\* dict.get(key, 0)
get(d, key) == IF key \in DOMAIN d THEN d[key] ELSE 0

\* tracker._infer_provider
infer_provider(model) ==
    LET model_lower == lower(model)
    IN  IF model_lower \in {"claude-sonnet-4-5", "claude-sonnet-4-5-20250929",
                            "claude-sonnet-4-5-20250929 "} THEN "anthropic"
        ELSE IF model_lower \in {"gpt-4o", "chatgpt-4o-latest", " gpt-4o", "gpt 4o"}
        THEN "openai"
        ELSE "unknown"

\* ----------------------------------------------------------------- storage
\* MemoryStorage.query: the filters are applied one after the other, each
\* only when its argument is not None.
\* Mutant of query: the until bound is exclusive.
query_until_exclusive(provider, model, user_id, session_id, since, until, tags) ==
    LET r0 == records
        r1 == IF provider # None THEN SelectSeq(r0, LAMBDA r : r.provider = provider) ELSE r0
        r2 == IF model # None THEN SelectSeq(r1, LAMBDA r : r.model = model) ELSE r1
        r3 == IF user_id # None THEN SelectSeq(r2, LAMBDA r : r.user_id = user_id) ELSE r2
        r4 == IF session_id # None THEN SelectSeq(r3, LAMBDA r : r.session_id = session_id) ELSE r3
        r5 == IF since # Absent THEN SelectSeq(r4, LAMBDA r : r.timestamp >= Val(since)) ELSE r4
        r6 == IF until # Absent THEN SelectSeq(r5, LAMBDA r : r.timestamp < Val(until)) ELSE r5
        r7 == IF tags # Absent
              THEN SelectSeq(r6, LAMBDA r : \A k \in DOMAIN Val(tags) :
                                     k \in DOMAIN r.tags /\ r.tags[k] = Val(tags)[k])
              ELSE r6
    IN  r7

query(provider, model, user_id, session_id, since, until, tags) ==
    LET r0 == records
        r1 == IF provider # None THEN SelectSeq(r0, LAMBDA r : r.provider = provider) ELSE r0
        r2 == IF model # None THEN SelectSeq(r1, LAMBDA r : r.model = model) ELSE r1
        r3 == IF user_id # None THEN SelectSeq(r2, LAMBDA r : r.user_id = user_id) ELSE r2
        r4 == IF session_id # None THEN SelectSeq(r3, LAMBDA r : r.session_id = session_id) ELSE r3
        r5 == IF since # Absent THEN SelectSeq(r4, LAMBDA r : r.timestamp >= Val(since)) ELSE r4
        r6 == IF until # Absent THEN SelectSeq(r5, LAMBDA r : r.timestamp <= Val(until)) ELSE r5
        r7 == IF tags # Absent
              THEN SelectSeq(r6, LAMBDA r : \A k \in DOMAIN Val(tags) :
                                     k \in DOMAIN r.tags /\ r.tags[k] = Val(tags)[k])
              ELSE r6
    IN  r7

\* UsageTracker.get_total
get_total(user_id, session_id, since) ==
    LET rs == query(None, None, user_id, session_id, since, Absent, Absent)
    IN  SumSeq([i \in 1..Len(rs) |-> rs[i].total_cost])

\* Mutant of get_summary_from: a record's cost replaces the cost of its bucket.
RECURSIVE get_summary_overwriting(_, _, _)
get_summary_overwriting(rs, group_by, groups) ==
    IF rs = <<>> THEN groups
    ELSE LET r     == Head(rs)
             value == r[group_by]
             key   == IF value = None \/ value = "" THEN "unknown" ELSE value
         IN  get_summary_overwriting(Tail(rs), group_by,
                 [k \in DOMAIN groups \cup {key} |->
                     IF k = key THEN r.total_cost ELSE groups[k]])

\* UsageTracker.get_summary, the loop over the records: the key is the
\* attribute, or "unknown" when the attribute is None or the empty string
\* (Python's or), and the bucket of the key (0 when new) grows by the cost.
RECURSIVE get_summary_from(_, _, _)
get_summary_from(rs, group_by, groups) ==
    IF rs = <<>> THEN groups
    ELSE LET r     == Head(rs)
             value == r[group_by]
             key   == IF value = None \/ value = "" THEN "unknown" ELSE value
         IN  get_summary_from(Tail(rs), group_by,
                 [k \in DOMAIN groups \cup {key} |->
                     (IF k \in DOMAIN groups THEN groups[k] ELSE 0)
                       + (IF k = key THEN r.total_cost ELSE 0)])

\* UsageTracker.get_summary
get_summary(group_by) ==
    get_summary_from(query(None, None, None, None, Absent, Absent, Absent), group_by, <<>>)

\* ----------------------------------------------------------- serialization
\* datetime.isoformat() and datetime.fromisoformat(): the text of an instant
\* is its date and its time of day; texts compare field by field, as the
\* characters of "2021-05-31T12:00:00" do.
isoformat(t) == [date |-> t \div 24, hour |-> t % 24]
fromisoformat(x) == x.date * 24 + x.hour
IsoLeq(x, y) == x.date < y.date \/ (x.date = y.date /\ x.hour <= y.hour)

\* str(Decimal) and Decimal(str): the text of an amount is its whole part and
\* its eight decimal places.
str(x) == [whole |-> x \div 100000000, places |-> x % 100000000]
Decimal(x) == x.whole * 100000000 + x.places

\* json.dumps and json.loads of a tag map: the text of a map is the set of
\* its "key": "value" members.
json_dumps(tags) == {<<k, tags[k]>> : k \in DOMAIN tags}
json_loads(x) == [k \in {m[1] : m \in x} |-> (CHOOSE m \in x : m[1] = k)[2]]

\* int(bool) and bool(int)
int(b) == IF b THEN 1 ELSE 0
bool(i) == i # 0

\* The water_ml a UsageRecord gets when none is given: Decimal("0").
water_ml_default == 0

\* json_file._record_to_dict
record_to_dict(record) ==
    [id                 |-> record.id,
     timestamp          |-> isoformat(record.timestamp),
     provider           |-> record.provider,
     model              |-> record.model,
     input_tokens       |-> record.input_tokens,
     output_tokens      |-> record.output_tokens,
     cache_read_tokens  |-> record.cache_read_tokens,
     cache_write_tokens |-> record.cache_write_tokens,
     input_cost         |-> str(record.input_cost),
     output_cost        |-> str(record.output_cost),
     total_cost         |-> str(record.total_cost),
     session_id         |-> record.session_id,
     user_id            |-> record.user_id,
     tags               |-> json_dumps(record.tags),
     is_estimate        |-> record.is_estimate]

\* json_file._dict_to_record
dict_to_record(d) ==
    [id                 |-> d.id,
     timestamp          |-> fromisoformat(d.timestamp),
     provider           |-> d.provider,
     model              |-> d.model,
     input_tokens       |-> d.input_tokens,
     output_tokens      |-> d.output_tokens,
     cache_read_tokens  |-> d.cache_read_tokens,
     cache_write_tokens |-> d.cache_write_tokens,
     input_cost         |-> Decimal(d.input_cost),
     output_cost        |-> Decimal(d.output_cost),
     total_cost         |-> Decimal(d.total_cost),
     session_id         |-> d.session_id,
     user_id            |-> d.user_id,
     tags               |-> json_loads(d.tags),
     is_estimate        |-> d.is_estimate,
     water_ml           |-> water_ml_default]

\* JsonFileStorage._load_all
load_all ==
    IF jsonl = Absent THEN <<>>
    ELSE [i \in 1..Len(Val(jsonl)) |-> dict_to_record(Val(jsonl)[i])]

\* JsonFileStorage.query
json_query(provider, model, user_id, session_id, since, until, tags) ==
    LET r0 == load_all
        r1 == IF provider # None THEN SelectSeq(r0, LAMBDA r : r.provider = provider) ELSE r0
        r2 == IF model # None THEN SelectSeq(r1, LAMBDA r : r.model = model) ELSE r1
        r3 == IF user_id # None THEN SelectSeq(r2, LAMBDA r : r.user_id = user_id) ELSE r2
        r4 == IF session_id # None THEN SelectSeq(r3, LAMBDA r : r.session_id = session_id) ELSE r3
        r5 == IF since # Absent THEN SelectSeq(r4, LAMBDA r : r.timestamp >= Val(since)) ELSE r4
        r6 == IF until # Absent THEN SelectSeq(r5, LAMBDA r : r.timestamp <= Val(until)) ELSE r5
        r7 == IF tags # Absent
              THEN SelectSeq(r6, LAMBDA r : \A k \in DOMAIN Val(tags) :
                                     k \in DOMAIN r.tags /\ r.tags[k] = Val(tags)[k])
              ELSE r6
    IN  r7

\* The parameters of SQLiteStorage.save's INSERT: one value per column.
\* NULL is None for the two ids and Absent for the tags.
sql_row(record) ==
    [id                 |-> record.id,
     timestamp          |-> isoformat(record.timestamp),
     provider           |-> record.provider,
     model              |-> record.model,
     input_tokens       |-> record.input_tokens,
     output_tokens      |-> record.output_tokens,
     cache_read_tokens  |-> record.cache_read_tokens,
     cache_write_tokens |-> record.cache_write_tokens,
     input_cost         |-> str(record.input_cost),
     output_cost        |-> str(record.output_cost),
     total_cost         |-> str(record.total_cost),
     session_id         |-> record.session_id,
     user_id            |-> record.user_id,
     tags               |-> IF DOMAIN record.tags # {}
                            THEN Some(json_dumps(record.tags)) ELSE Absent,
     is_estimate        |-> int(record.is_estimate)]

\* INSERT OR REPLACE on the primary key id: the row with that id, if any, is
\* deleted and the new row is inserted after the others.
insert_or_replace(table, row) == Append(SelectSeq(table, LAMBDA x : x.id # row.id), row)

\* sqlite._row_to_record
row_to_record(row) ==
    [id                 |-> row.id,
     timestamp          |-> fromisoformat(row.timestamp),
     provider           |-> row.provider,
     model              |-> row.model,
     input_tokens       |-> row.input_tokens,
     output_tokens      |-> row.output_tokens,
     cache_read_tokens  |-> row.cache_read_tokens,
     cache_write_tokens |-> row.cache_write_tokens,
     input_cost         |-> Decimal(row.input_cost),
     output_cost        |-> Decimal(row.output_cost),
     total_cost         |-> Decimal(row.total_cost),
     session_id         |-> row.session_id,
     user_id            |-> row.user_id,
     tags               |-> IF row.tags # Absent THEN json_loads(Val(row.tags)) ELSE <<>>,
     is_estimate        |-> bool(row.is_estimate),
     water_ml           |-> water_ml_default]

\* ORDER BY timestamp: the arrangements of the rows in which the timestamp
\* texts do not decrease; SQL leaves the order of equal timestamps open.
order_by_timestamp(rows) ==
    LET n == Len(rows)
    IN  { [i \in 1..n |-> rows[p[i]]] :
            p \in { q \in [1..n -> 1..n] :
                      /\ \A i, j \in 1..n : i # j => q[i] # q[j]
                      /\ \A i \in 1..(n - 1) :
                           IsoLeq(rows[q[i]].timestamp, rows[q[i + 1]].timestamp) } }

\* SQLiteStorage.query: the results it can return.  The WHERE conditions
\* compare the timestamp column with the text of since and until; the tags
\* are matched after the rows have become records.
sql_query(provider, model, user_id, session_id, since, until, tags) ==
    LET w0 == db
        w1 == IF provider # None THEN SelectSeq(w0, LAMBDA x : x.provider = provider) ELSE w0
        w2 == IF model # None THEN SelectSeq(w1, LAMBDA x : x.model = model) ELSE w1
        w3 == IF user_id # None THEN SelectSeq(w2, LAMBDA x : x.user_id = user_id) ELSE w2
        w4 == IF session_id # None THEN SelectSeq(w3, LAMBDA x : x.session_id = session_id) ELSE w3
        w5 == IF since # Absent
              THEN SelectSeq(w4, LAMBDA x : IsoLeq(isoformat(Val(since)), x.timestamp)) ELSE w4
        w6 == IF until # Absent
              THEN SelectSeq(w5, LAMBDA x : IsoLeq(x.timestamp, isoformat(Val(until)))) ELSE w5
    IN  { LET rs == [i \in 1..Len(rows) |-> row_to_record(rows[i])]
          IN  IF tags # Absent
              THEN SelectSeq(rs, LAMBDA r : \A k \in DOMAIN Val(tags) :
                                     k \in DOMAIN r.tags /\ r.tags[k] = Val(tags)[k])
              ELSE rs
          : rows \in order_by_timestamp(w6) }

\* ------------------------------------------------------------------ budget
\* The calendar around hour 0 = Sunday 2021-05-30 00:00: datetime.weekday(),
\* replace(hour=0, minute=0, second=0, microsecond=0) and
\* replace(day=1, hour=0, ...), the last for May, June and July 2021.
Weekday(t) == ((t \div 24) + 6) % 7
StartOfDay(t) == t - (t % 24)
FirstOfMonth(t) == IF t < 48 THEN 0 - 29 * 24 ELSE IF t < 32 * 24 THEN 48 ELSE 32 * 24

\* Mutant of period_start: the start of the day is the current instant, the
\* time of day is not reset.
period_start_untruncated(period) ==
    IF period = "total" THEN Absent
    ELSE IF period = "session" THEN Absent
    ELSE IF period = "daily" THEN Some(now)
    ELSE IF period = "weekly" THEN Some(StartOfDay(now - 24 * Weekday(now)))
    ELSE Some(FirstOfMonth(now))

\* budget._period_start, for the periods it accepts; for any other string it
\* raises ValueError.
period_start(period) ==
    IF period = "total" THEN Absent
    ELSE IF period = "session" THEN Absent
    ELSE IF period = "daily" THEN Some(StartOfDay(now))
    ELSE IF period = "weekly" THEN Some(StartOfDay(now - 24 * Weekday(now)))
    ELSE Some(FirstOfMonth(now))

PeriodRaises(period) == period \notin ValidPeriods

\* config.scope.startswith("user:") / config.scope[5:] and
\* config.scope.startswith("session:") / config.scope[8:], on the scope
\* strings used here.
ScopeUser(scope) ==
    CASE scope = "user:alice" -> "alice"
      [] scope = "user:bob"   -> "bob"
      [] OTHER                -> None
ScopeSession(scope) ==
    CASE scope = "session:s0" -> "s0"
      [] scope = "session:s1" -> "s1"
      [] OTHER                -> None

\* Mutant of check_one: the remaining amount is not clamped at zero.
check_one_unclamped(config, user_id) ==
    LET since == period_start(config.period)
        uid   == IF config.scope # "global" THEN ScopeUser(config.scope) ELSE user_id
        sid   == IF config.scope # "global" THEN ScopeSession(config.scope) ELSE None
        spent == get_total(uid, sid, since)
    IN  [config      |-> config,
         spent       |-> spent,
         remaining   |-> config.limit - spent,
         utilization |-> IF config.limit > 0
                         THEN [num |-> spent, den |-> config.limit]
                         ELSE [num |-> 0, den |-> 1],
         is_exceeded |-> spent >= config.limit]

\* Mutant of check_one: the user id passed to check wins over the user of the
\* scope.
check_one_ambient_first(config, user_id) ==
    LET since == period_start(config.period)
        uid   == IF user_id # None THEN user_id ELSE ScopeUser(config.scope)
        sid   == IF config.scope # "global" THEN ScopeSession(config.scope) ELSE None
        spent == get_total(uid, sid, since)
    IN  [config      |-> config,
         spent       |-> spent,
         remaining   |-> Max(0, config.limit - spent),
         utilization |-> IF config.limit > 0
                         THEN [num |-> spent, den |-> config.limit]
                         ELSE [num |-> 0, den |-> 1],
         is_exceeded |-> spent >= config.limit]

\* Mutant of check_one: a budget of limit 0 is fully used.
check_one_zero_limit_full(config, user_id) ==
    LET since == period_start(config.period)
        uid   == IF config.scope # "global" THEN ScopeUser(config.scope) ELSE user_id
        sid   == IF config.scope # "global" THEN ScopeSession(config.scope) ELSE None
        spent == get_total(uid, sid, since)
    IN  [config      |-> config,
         spent       |-> spent,
         remaining   |-> Max(0, config.limit - spent),
         utilization |-> IF config.limit > 0
                         THEN [num |-> spent, den |-> config.limit]
                         ELSE [num |-> 1, den |-> 1],
         is_exceeded |-> spent >= config.limit]

\* BudgetManager._check_one, for a config whose period is valid
check_one(config, user_id) ==
    LET since == period_start(config.period)
        uid   == IF config.scope # "global" THEN ScopeUser(config.scope) ELSE user_id
        sid   == IF config.scope # "global" THEN ScopeSession(config.scope) ELSE None
        spent == get_total(uid, sid, since)
    IN  [config      |-> config,
         spent       |-> spent,
         remaining   |-> Max(0, config.limit - spent),
         utilization |-> IF config.limit > 0
                         THEN [num |-> spent, den |-> config.limit]
                         ELSE [num |-> 0, den |-> 1],
         is_exceeded |-> spent >= config.limit]

\* BudgetManager.check: one status per budget, or ValueError when the period
\* of some budget is not one _period_start knows.
CheckRaises == \E i \in 1..Len(budgets) : PeriodRaises(budgets[i].period)
check(user_id) == [i \in 1..Len(budgets) |-> check_one(budgets[i], user_id)]

\* BudgetManager.would_exceed: the loop from budget i on.  The result is
\* "True", "False" or "ValueError".
RECURSIVE would_exceed_from(_, _, _)
would_exceed_from(i, cost, user_id) ==
    IF i > Len(budgets) THEN "False"
    ELSE IF PeriodRaises(budgets[i].period) THEN "ValueError"
    ELSE IF check_one(budgets[i], user_id).spent + cost > budgets[i].limit THEN "True"
    ELSE would_exceed_from(i + 1, cost, user_id)

would_exceed(cost, user_id) == would_exceed_from(1, cost, user_id)

\* Mutant of enforce_from: the spend alone is compared with the limit.
RECURSIVE enforce_from_ignoring_cost(_, _, _)
enforce_from_ignoring_cost(i, cost, user_id) ==
    IF i > Len(budgets) THEN [raised |-> "none", status |-> None]
    ELSE IF budgets[i].action # "block" THEN enforce_from_ignoring_cost(i + 1, cost, user_id)
    ELSE IF PeriodRaises(budgets[i].period) THEN [raised |-> "ValueError", status |-> None]
    ELSE IF check_one(budgets[i], user_id).spent > budgets[i].limit
         THEN [raised |-> "BudgetExceededError", status |-> check_one(budgets[i], user_id)]
    ELSE enforce_from_ignoring_cost(i + 1, cost, user_id)

\* BudgetManager.enforce: the loop from budget i on.  The result is the
\* exception raised, with the status BudgetExceededError carries, or "none".
RECURSIVE enforce_from(_, _, _)
enforce_from(i, cost, user_id) ==
    IF i > Len(budgets) THEN [raised |-> "none", status |-> None]
    ELSE IF budgets[i].action # "block" THEN enforce_from(i + 1, cost, user_id)
    ELSE IF PeriodRaises(budgets[i].period) THEN [raised |-> "ValueError", status |-> None]
    ELSE IF check_one(budgets[i], user_id).spent + cost > budgets[i].limit
         THEN [raised |-> "BudgetExceededError", status |-> check_one(budgets[i], user_id)]
    ELSE enforce_from(i + 1, cost, user_id)

enforce(cost, user_id) == enforce_from(1, cost, user_id)

\* ------------------------------------------------------------------ alerts
\* sorted(percentages): insertion of x into an ascending sequence, after the
\* elements equal to it.
RECURSIVE Insert(_, _)
Insert(x, s) ==
    IF s = <<>> THEN <<x>>
    ELSE IF x < Head(s) THEN <<x>> \o s
    ELSE <<Head(s)>> \o Insert(x, Tail(s))

\* Mutant of sorted: the percentages are kept in the order given.
sorted_unsorted(s) == s

RECURSIVE sorted(_)
sorted(s) == IF s = <<>> THEN <<>> ELSE Insert(s[Len(s)], sorted(SubSeq(s, 1, Len(s) - 1)))

\* AlertThreshold(percentage=p): message None, triggered False
AlertThreshold(p) == [percentage |-> p, triggered |-> FALSE]

DefaultThresholds == <<AlertThreshold(50), AlertThreshold(80), AlertThreshold(95), AlertThreshold(100)>>

\* Mutant of Reaches: a utilization equal to the percentage does not count.
Reaches_strict(utilization, percentage) == utilization.num * 100 > percentage * utilization.den

\* status.utilization >= threshold.percentage
Reaches(utilization, percentage) == utilization.num * 100 >= percentage * utilization.den

\* alerts._default_message: the values the text is formatted from
default_message(status, threshold) ==
    [pct |-> threshold.percentage, limit |-> status.config.limit,
     period |-> status.config.period, scope |-> status.config.scope,
     spent |-> status.spent, remaining |-> status.remaining]

\* Mutant of fire_calls: only the first registered callback is invoked.
fire_calls_first(status, msg) ==
    [k \in 1..(IF Len(callbacks) > 0 THEN 1 ELSE 0) |->
        [callback |-> callbacks[k], status |-> status, msg |-> msg]]

\* AlertManager._fire: what one fired alert adds to the callback invocations
\* and to sys.stderr
fire_calls(status, msg) ==
    [k \in 1..Len(callbacks) |-> [callback |-> callbacks[k], status |-> status, msg |-> msg]]

fire_stderr(msg) == IF Len(callbacks) > 0 THEN <<>> ELSE <<msg>>

\* Mutant of fired: the thresholds before the one that fires are armed again.
fired_rearming(status, j, acc) ==
    LET msg == default_message(status, acc.thresholds[j])
    IN  [thresholds |-> [k \in 1..Len(acc.thresholds) |->
                            [acc.thresholds[k] EXCEPT !.triggered = (k = j) \/ (k > j /\ @)]],
         messages   |-> Append(acc.messages, msg),
         calls      |-> acc.calls \o fire_calls(status, msg),
         stderr     |-> acc.stderr \o fire_stderr(msg)]

\* What firing threshold j for a status does to the accumulator.
fired(status, j, acc) ==
    LET msg == default_message(status, acc.thresholds[j])
    IN  [thresholds |-> [acc.thresholds EXCEPT ![j].triggered = TRUE],
         messages   |-> Append(acc.messages, msg),
         calls      |-> acc.calls \o fire_calls(status, msg),
         stderr     |-> acc.stderr \o fire_stderr(msg)]

\* Mutant of notify_from: a threshold that has fired fires again.
RECURSIVE notify_from_refire(_, _, _, _)
notify_from_refire(statuses, i, j, acc) ==
    IF i > Len(statuses) THEN acc
    ELSE IF j > Len(acc.thresholds) THEN notify_from_refire(statuses, i + 1, 1, acc)
    ELSE IF Reaches(statuses[i].utilization, acc.thresholds[j].percentage)
         THEN notify_from_refire(statuses, i, j + 1, fired(statuses[i], j, acc))
    ELSE notify_from_refire(statuses, i, j + 1, acc)

\* Mutant of notify_from: the triggered flags are those of the beginning of
\* the call, so that a threshold fires for every budget at or above it.
RECURSIVE notify_from_per_budget(_, _, _, _)
notify_from_per_budget(statuses, i, j, acc) ==
    IF i > Len(statuses) THEN acc
    ELSE IF j > Len(acc.thresholds) THEN notify_from_per_budget(statuses, i + 1, 1, acc)
    ELSE IF thresholds[j].triggered THEN notify_from_per_budget(statuses, i, j + 1, acc)
    ELSE IF Reaches(statuses[i].utilization, acc.thresholds[j].percentage)
         THEN notify_from_per_budget(statuses, i, j + 1, fired(statuses[i], j, acc))
    ELSE notify_from_per_budget(statuses, i, j + 1, acc)

\* Mutant of notify_from: the thresholds are examined from the last to the
\* first.
RECURSIVE notify_from_backwards(_, _, _, _)
notify_from_backwards(statuses, i, j, acc) ==
    LET jj == Len(acc.thresholds) + 1 - j
    IN  IF i > Len(statuses) THEN acc
        ELSE IF j > Len(acc.thresholds) THEN notify_from_backwards(statuses, i + 1, 1, acc)
        ELSE IF acc.thresholds[jj].triggered THEN notify_from_backwards(statuses, i, j + 1, acc)
        ELSE IF Reaches(statuses[i].utilization, acc.thresholds[jj].percentage)
             THEN notify_from_backwards(statuses, i, j + 1, fired(statuses[i], jj, acc))
        ELSE notify_from_backwards(statuses, i, j + 1, acc)

\* AlertManager.check_and_notify: the two nested loops, from the pair
\* (status i, threshold j) on, acc holding the thresholds, the messages and
\* the deliveries so far.
RECURSIVE notify_from(_, _, _, _)
notify_from(statuses, i, j, acc) ==
    IF i > Len(statuses) THEN acc
    ELSE IF j > Len(acc.thresholds) THEN notify_from(statuses, i + 1, 1, acc)
    ELSE IF acc.thresholds[j].triggered THEN notify_from(statuses, i, j + 1, acc)
    ELSE IF Reaches(statuses[i].utilization, acc.thresholds[j].percentage)
         THEN notify_from(statuses, i, j + 1, fired(statuses[i], j, acc))
    ELSE notify_from(statuses, i, j + 1, acc)

check_and_notify(user_id) ==
    notify_from(check(user_id), 1, 1,
        [thresholds |-> thresholds, messages |-> <<>>, calls |-> <<>>, stderr |-> <<>>])

\* -------------------------------------------------------------- operations
Quiet == calls' = <<>> /\ stderr' = <<>>

\* BudgetManager.set_budget
SetBudget(limit, period, scope, action) ==
    /\ Len(budgets) < MaxBudgets
    /\ LET config == [limit |-> limit, period |-> period, scope |-> scope, action |-> action]
       IN  /\ budgets' = Append(budgets, config)
           /\ ret' = [op |-> "set_budget", raised |-> "none", value |-> config]
    /\ Quiet
    /\ UNCHANGED <<meter, records, created, thresholds, callbacks, now, files, conc>>

\* list.remove(x): the sequence without its first element equal to x
RECURSIVE RemoveFirst(_, _)
RemoveFirst(s, x) ==
    IF s = <<>> THEN <<>>
    ELSE IF Head(s) = x THEN Tail(s)
    ELSE <<Head(s)>> \o RemoveFirst(Tail(s), x)

\* BudgetManager.remove_budget
RemoveBudget(config) ==
    /\ IF \E i \in 1..Len(budgets) : budgets[i] = config
       THEN /\ budgets' = RemoveFirst(budgets, config)
            /\ ret' = [op |-> "remove_budget", config |-> config, raised |-> "none"]
       ELSE /\ budgets' = budgets
            /\ ret' = [op |-> "remove_budget", config |-> config, raised |-> "ValueError"]
    /\ Quiet
    /\ UNCHANGED <<meter, records, created, thresholds, callbacks, now, files, conc>>

\* BudgetManager.check
Check(user_id) ==
    /\ ret' = IF CheckRaises
              THEN [op |-> "check", user_id |-> user_id, raised |-> "ValueError"]
              ELSE [op |-> "check", user_id |-> user_id, raised |-> "none",
                    value |-> check(user_id)]
    /\ Quiet
    /\ UNCHANGED <<meter, budgets, records, created, thresholds, callbacks, now, files, conc>>

\* BudgetManager.would_exceed
WouldExceed(cost, user_id) ==
    /\ LET r == would_exceed(cost, user_id)
       IN  ret' = IF r = "ValueError"
                  THEN [op |-> "would_exceed", cost |-> cost, user_id |-> user_id,
                        raised |-> "ValueError"]
                  ELSE [op |-> "would_exceed", cost |-> cost, user_id |-> user_id,
                        raised |-> "none", value |-> (r = "True")]
    /\ Quiet
    /\ UNCHANGED <<meter, budgets, records, created, thresholds, callbacks, now, files, conc>>

\* BudgetManager.enforce
Enforce(cost, user_id) ==
    /\ LET r == enforce(cost, user_id)
       IN  ret' = IF r.raised = "BudgetExceededError"
                  THEN [op |-> "enforce", cost |-> cost, user_id |-> user_id,
                        raised |-> r.raised, status |-> r.status]
                  ELSE [op |-> "enforce", cost |-> cost, user_id |-> user_id,
                        raised |-> r.raised]
    /\ Quiet
    /\ UNCHANGED <<meter, budgets, records, created, thresholds, callbacks, now, files, conc>>

\* UsageTracker.record_manual on the tracker a Meter builds (session "s0", no
\* water calculator, no tags)
RecordManual(model, inTok, outTok, crTok, cwTok, provider, user_id, session_id, is_estimate) ==
    /\ created < MaxRecords
    /\ IF ~KnownModel(model)
       THEN /\ ret' = [op |-> "record_manual", model |-> model,
                         raised |-> "UnknownModelError"]
            /\ UNCHANGED <<records, created>>
       ELSE LET costs  == calculate_detailed(model, inTok, outTok, crTok, cwTok)
                record == [id                 |-> created + 1,
                           timestamp          |-> now,
                           provider           |-> IF provider = None
                                                  THEN infer_provider(model) ELSE provider,
                           model              |-> model,
                           input_tokens       |-> inTok,
                           output_tokens      |-> outTok,
                           cache_read_tokens  |-> crTok,
                           cache_write_tokens |-> cwTok,
                           input_cost         |-> costs.input_cost,
                           output_cost        |-> costs.output_cost,
                           total_cost         |-> costs.total_cost,
                           session_id         |-> IF session_id = None THEN "s0" ELSE session_id,
                           user_id            |-> user_id,
                           tags               |-> <<>>,
                           is_estimate        |-> is_estimate,
                           water_ml           |-> 0]
            IN  /\ records' = Append(records, record)
                /\ created' = created + 1
                /\ ret' = [op |-> "record_manual", model |-> model, raised |-> "none",
                            value |-> record]
    /\ Quiet
    /\ UNCHANGED <<meter, budgets, thresholds, callbacks, now, files, conc>>

\* UsageTracker.record on that tracker, up to the save: the provider is
\* detected from the response, the usage and the model are extracted from it;
\* the result is the error raised or the record built.
tracker_record(response, user_id, session_id) ==
    IF detect(response) = None THEN [raised |-> "ValueError"]
    ELSE IF ~KnownModel(response.model)
    THEN [model |-> response.model, raised |-> "UnknownModelError"]
    ELSE LET usage  == extract_usage(detect(response), response)
             inTok  == usage["input_tokens"]
             outTok == usage["output_tokens"]
             crTok  == get(usage, "cache_read_tokens")
             cwTok  == get(usage, "cache_write_tokens")
             costs  == calculate_detailed(response.model, inTok, outTok, crTok, cwTok)
             record == [id                 |-> created + 1,
                        timestamp          |-> now,
                        provider           |-> detect(response),
                        model              |-> response.model,
                        input_tokens       |-> inTok,
                        output_tokens      |-> outTok,
                        cache_read_tokens  |-> crTok,
                        cache_write_tokens |-> cwTok,
                        input_cost         |-> costs.input_cost,
                        output_cost        |-> costs.output_cost,
                        total_cost         |-> costs.total_cost,
                        session_id         |-> IF session_id = None THEN "s0" ELSE session_id,
                        user_id            |-> user_id,
                        tags               |-> <<>>,
                        is_estimate        |-> FALSE,
                        water_ml           |-> 0]
         IN  [model |-> response.model, raised |-> "none", value |-> record]

\* Mutant of Record: the record is saved, without costs, before the model is
\* priced.
Record_saved_before_priced(response, user_id, session_id) ==
    /\ created < MaxRecords
    /\ LET r == tracker_record(response, user_id, session_id)
       IN  /\ ret' = r @@ [op |-> "record"]
           /\ created' = created + 1
           /\ records' = Append(records,
                            IF r.raised = "none" THEN r.value
                            ELSE [id |-> created + 1, timestamp |-> now,
                                  provider |-> "unknown", model |-> response.model,
                                  input_tokens |-> 0, output_tokens |-> 0,
                                  cache_read_tokens |-> 0, cache_write_tokens |-> 0,
                                  input_cost |-> 0, output_cost |-> 0, total_cost |-> 0,
                                  session_id |-> "s0", user_id |-> user_id,
                                  tags |-> <<>>, is_estimate |-> FALSE, water_ml |-> 0])
    /\ Quiet
    /\ UNCHANGED <<meter, budgets, thresholds, callbacks, now, files, conc>>

\* UsageTracker.record, called directly
Record(response, user_id, session_id) ==
    /\ created < MaxRecords
    /\ LET r == tracker_record(response, user_id, session_id)
       IN  /\ ret' = r @@ [op |-> "record"]
           /\ IF r.raised = "none"
              THEN records' = Append(records, r.value) /\ created' = created + 1
              ELSE UNCHANGED <<records, created>>
    /\ Quiet
    /\ UNCHANGED <<meter, budgets, thresholds, callbacks, now, files, conc>>

\* Mutant of effective_user_id: the default of the Meter is not used.
effective_user_id_of_call(user_id) == user_id

\* Meter.record: user_id or self._default_user_id
effective_user_id(user_id) ==
    IF user_id = None \/ user_id = "" THEN default_user_id ELSE user_id

\* Meter.record: the tracker records the response for the effective user id
\* and then the alert manager checks the budgets for that user id, on the
\* store that holds the new record.  The messages are dropped, the record is
\* returned; an error of either call is the error of Meter.record.
MeterRecord(response, user_id) ==
    /\ created < MaxRecords
    /\ UNCHANGED <<meter, budgets, callbacks, now, files, conc>>
    /\ LET uid == effective_user_id(user_id)
           r   == tracker_record(response, uid, None)
       IN  IF r.raised # "none"
           THEN /\ ret' = r @@ [op |-> "meter_record", user_id |-> user_id, uid |-> uid]
                /\ UNCHANGED <<records, created, thresholds>>
                /\ Quiet
           ELSE /\ records' = Append(records, r.value)
                /\ created' = created + 1
                /\ IF CheckRaises
                   THEN /\ ret' = [op |-> "meter_record", user_id |-> user_id, uid |-> uid,
                                   model |-> response.model, raised |-> "ValueError"]
                        /\ thresholds' = thresholds
                        /\ Quiet
                   ELSE \E statuses \in {check(uid)'} :
                        LET n == notify_from(statuses, 1, 1,
                                   [thresholds |-> thresholds, messages |-> <<>>,
                                    calls |-> <<>>, stderr |-> <<>>])
                        IN  /\ thresholds' = n.thresholds
                            /\ calls' = n.calls
                            /\ stderr' = n.stderr
                            /\ ret' = r @@ [op |-> "meter_record", user_id |-> user_id,
                                            uid |-> uid]

\* CostCalculator.calculate
Calculate(model, inTok, outTok, crTok, cwTok) ==
    /\ ret' = IF ~KnownModel(model)
              THEN [op |-> "calculate", model |-> model, raised |-> "UnknownModelError"]
              ELSE [op |-> "calculate", model |-> model, raised |-> "none",
                    tokens |-> <<inTok, outTok, crTok, cwTok>>,
                    value |-> calculate(model, inTok, outTok, crTok, cwTok)]
    /\ Quiet
    /\ UNCHANGED <<meter, budgets, records, created, thresholds, callbacks, now, files, conc>>

\* CostCalculator.calculate_detailed
CalculateDetailed(model, inTok, outTok, crTok, cwTok) ==
    /\ ret' = IF ~KnownModel(model)
              THEN [op |-> "calculate_detailed", model |-> model, raised |-> "UnknownModelError"]
              ELSE [op |-> "calculate_detailed", model |-> model, raised |-> "none",
                    tokens |-> <<inTok, outTok, crTok, cwTok>>,
                    value |-> calculate_detailed(model, inTok, outTok, crTok, cwTok)]
    /\ Quiet
    /\ UNCHANGED <<meter, budgets, records, created, thresholds, callbacks, now, files, conc>>

\* UsageTracker.get_summary
GetSummary(group_by) ==
    /\ ret' = [op |-> "get_summary", group_by |-> group_by, raised |-> "none",
               value |-> get_summary(group_by)]
    /\ Quiet
    /\ UNCHANGED <<meter, budgets, records, created, thresholds, callbacks, now, files, conc>>

\* UsageTracker.get_total without filters
GetTotal ==
    /\ ret' = [op |-> "get_total", raised |-> "none", value |-> get_total(None, None, Absent)]
    /\ Quiet
    /\ UNCHANGED <<meter, budgets, records, created, thresholds, callbacks, now, files, conc>>

\* MemoryStorage.clear
Clear ==
    /\ records' = <<>>
    /\ ret' = [op |-> "clear", raised |-> "none"]
    /\ Quiet
    /\ UNCHANGED <<meter, budgets, created, thresholds, callbacks, now, files, conc>>

\* JsonFileStorage.save: open(path, "a") creates the file when there is none,
\* and the line is written at its end.
append_line(file, line) == Some(Append(IF file = Absent THEN <<>> ELSE Val(file), line))

\* Mutant of unlink_if_exists: the file is unlinked without looking whether
\* it exists.
unlink_always(file) ==
    [file |-> Absent, raised |-> IF file = Absent THEN "FileNotFoundError" ELSE "none"]

\* JsonFileStorage.clear: if self._path.exists(): self._path.unlink()
unlink_if_exists(file) == [file |-> Absent, raised |-> "none"]

\* save(record) on a MemoryStorage, a JsonFileStorage and a SQLiteStorage
Save(record) ==
    /\ Len(records) < MaxSaved
    /\ records' = Append(records, record)
    /\ jsonl' = append_line(jsonl, record_to_dict(record))
    /\ db' = insert_or_replace(db, sql_row(record))
    /\ ret' = [op |-> "save", record |-> record, raised |-> "none"]
    /\ Quiet
    /\ UNCHANGED <<meter, budgets, created, thresholds, callbacks, now, conc>>

\* clear() on the three stores.  ret.repeat tells that the call directly
\* follows another clear().
ClearStores ==
    /\ records' = <<>>
    /\ jsonl' = unlink_if_exists(jsonl).file
    /\ db' = <<>>
    /\ ret' = [op |-> "clear", raised |-> unlink_if_exists(jsonl).raised,
               repeat |-> (ret.op = "clear")]
    /\ Quiet
    /\ UNCHANGED <<meter, budgets, created, thresholds, callbacks, now, conc>>

\* query(**f) on the three stores
QueryStores(f) ==
    /\ \E rows \in sql_query(f.provider, f.model, f.user_id, f.session_id,
                              f.since, f.until, f.tags) :
          ret' = [op |-> "query", filters |-> f, raised |-> "none",
                  memory |-> query(f.provider, f.model, f.user_id, f.session_id,
                                   f.since, f.until, f.tags),
                  json   |-> json_query(f.provider, f.model, f.user_id, f.session_id,
                                        f.since, f.until, f.tags),
                  sqlite |-> rows,
                  after  |-> IF ret.op = "save" THEN Some(ret.record)
                             ELSE IF ret.op = "reopen" THEN ret.after
                             ELSE Absent,
                  reopened |-> (ret.op = "reopen")]
    /\ Quiet
    /\ UNCHANGED <<meter, budgets, records, created, thresholds, callbacks, now, files, conc>>

\* JsonFileStorage(path) and SQLiteStorage(db_path) are constructed again on
\* the files of the stores: the new instances hold the path and a new lock,
\* and CREATE TABLE IF NOT EXISTS leaves the table as it is.  ret.after is
\* the record whose save directly preceded.
Reopen ==
    /\ ret.op # "reopen"
    /\ ret' = [op |-> "reopen", raised |-> "none",
               after |-> IF ret.op = "save" THEN Some(ret.record) ELSE Absent]
    /\ Quiet
    /\ UNCHANGED <<meter, budgets, records, created, thresholds, callbacks, now, files, conc>>

\* ------------------------------------------------- the stores under threads
\* UsageRecord(...): the dataclass, with the token counts of one call.
UsageRecord(id, timestamp, provider, model, cost, session_id, user_id, tags, is_estimate, water_ml) ==
    [id |-> id, timestamp |-> timestamp, provider |-> provider, model |-> model,
     input_tokens |-> 1000, output_tokens |-> 0,
     cache_read_tokens |-> 0, cache_write_tokens |-> 0,
     input_cost |-> cost, output_cost |-> 0, total_cost |-> cost,
     session_id |-> session_id, user_id |-> user_id, tags |-> tags,
     is_estimate |-> is_estimate, water_ml |-> water_ml]

\* The threads that call a store, and the stores they call.  A thread is at
\* "idle" between two calls, at "lock" while it waits for the lock of the
\* store, then inside the with block of its call, then at "unlock".  It keeps
\* the argument of its call, the lines or records it has read, the exception
\* raised, the number of its calls and the log of the calls it completed.
Threads == {"t1", "t2"}
Stores == {"memory", "json"}
IdleThread ==
    [pc |-> "idle", op |-> None, store |-> None, record |-> Absent, lines |-> <<>>,
     raised |-> "none", n |-> 0, log |-> <<>>]

\* The record thread t saves in its k-th call: every call a different id.
ThreadIds ==
    [t \in Threads |-> IF t = "t1" THEN <<"t1-1", "t1-2", "t1-3", "t1-4">>
                                   ELSE <<"t2-1", "t2-2", "t2-3", "t2-4">>]
ThreadRecord(t, k) ==
    UsageRecord(ThreadIds[t][k], 12, "anthropic", "claude-sonnet-4-5", 300000, "s0", None,
                <<>>, FALSE, 0)

\* A thread calls save(record), query() or clear() on a store.
CallsMade == threads["t1"].n + threads["t2"].n

Call(t, op, store) ==
    /\ threads[t].pc = "idle"
    /\ CallsMade < MaxCalls
    /\ threads' = [threads EXCEPT ![t] =
                     [pc |-> "lock", op |-> op, store |-> store,
                      record |-> IF op = "save"
                                 THEN Some(ThreadRecord(t, threads[t].n + 1)) ELSE Absent,
                      lines |-> <<>>, raised |-> "none",
                      n |-> threads[t].n + 1, log |-> threads[t].log]]
    /\ UNCHANGED <<meter, budgets, records, created, thresholds, callbacks, now, files, lock,
                   ret, calls, stderr>>

\* Mutant of can_acquire: the lock is not taken into account.
can_acquire_unlocked(store) == TRUE

\* threading.Lock: "with self._lock" is entered only when no thread holds it
can_acquire(store) == lock[store] = None

\* The first statement of the with block of each call.
Body(op, store) ==
    IF store = "json"
    THEN (IF op = "save" THEN "save_open"
          ELSE IF op = "query" THEN "query_exists" ELSE "clear_exists")
    ELSE (IF op = "save" THEN "mem_save"
          ELSE IF op = "query" THEN "mem_query" ELSE "mem_clear")

\* with self._lock: entry
Acquire(t) ==
    /\ threads[t].pc = "lock"
    /\ can_acquire(threads[t].store)
    /\ lock' = [lock EXCEPT ![threads[t].store] = t]
    /\ threads' = [threads EXCEPT ![t].pc = Body(threads[t].op, threads[t].store)]
    /\ UNCHANGED <<meter, budgets, records, created, thresholds, callbacks, now, files,
                   ret, calls, stderr>>

\* JsonFileStorage.save: open(self._path, "a") creates the file if missing
JsonSaveOpen(t) ==
    /\ threads[t].pc = "save_open"
    /\ jsonl' = IF jsonl = Absent THEN Some(<<>>) ELSE jsonl
    /\ threads' = [threads EXCEPT ![t].pc = "save_write"]
    /\ UNCHANGED <<meter, budgets, records, created, thresholds, callbacks, now, db, lock,
                   ret, calls, stderr>>

\* JsonFileStorage.save: f.write(line + "\n") and the close of the file.  The
\* line reaches the file at once, or a first part of it does and the rest
\* follows ("save_flush").  A file unlinked since the open receives nothing.
JsonSaveWrite(t) ==
    /\ threads[t].pc = "save_write"
    /\ jsonl' = IF jsonl = Absent THEN Absent
                ELSE append_line(jsonl, record_to_dict(Val(threads[t].record)))
    /\ \/ threads' = [threads EXCEPT ![t].pc = "unlock"]
       \/ threads' = [threads EXCEPT ![t].pc = "save_flush"]
    /\ UNCHANGED <<meter, budgets, records, created, thresholds, callbacks, now, db, lock,
                   ret, calls, stderr>>

JsonSaveFlush(t) ==
    /\ threads[t].pc = "save_flush"
    /\ threads' = [threads EXCEPT ![t].pc = "unlock"]
    /\ UNCHANGED <<meter, budgets, records, created, thresholds, callbacks, now, files, lock,
                   ret, calls, stderr>>

\* The last line of the file is incomplete: some save is between the two
\* parts of its write.
Torn == \E u \in Threads : threads[u].pc = "save_flush"

\* JsonFileStorage._load_all: if not self._path.exists(): return []
JsonQueryExists(t) ==
    /\ threads[t].pc = "query_exists"
    /\ threads' = [threads EXCEPT ![t].pc = IF jsonl = Absent THEN "unlock" ELSE "query_read"]
    /\ UNCHANGED <<meter, budgets, records, created, thresholds, callbacks, now, files, lock,
                   ret, calls, stderr>>

\* JsonFileStorage._load_all: open(self._path) and f.readlines(); json.loads
\* of an incomplete line raises JSONDecodeError.
JsonQueryRead(t) ==
    /\ threads[t].pc = "query_read"
    /\ threads' = [threads EXCEPT ![t] =
                     [@ EXCEPT !.pc = "unlock",
                               !.lines = IF jsonl = Absent THEN <<>> ELSE Val(jsonl),
                               !.raised = IF jsonl = Absent THEN "FileNotFoundError"
                                          ELSE IF Torn THEN "JSONDecodeError"
                                          ELSE "none"]]
    /\ UNCHANGED <<meter, budgets, records, created, thresholds, callbacks, now, files, lock,
                   ret, calls, stderr>>

\* JsonFileStorage.clear: if self._path.exists():
JsonClearExists(t) ==
    /\ threads[t].pc = "clear_exists"
    /\ threads' = [threads EXCEPT ![t].pc = IF jsonl = Absent THEN "unlock" ELSE "clear_unlink"]
    /\ UNCHANGED <<meter, budgets, records, created, thresholds, callbacks, now, files, lock,
                   ret, calls, stderr>>

\* JsonFileStorage.clear: self._path.unlink()
JsonClearUnlink(t) ==
    /\ threads[t].pc = "clear_unlink"
    /\ jsonl' = Absent
    /\ threads' = [threads EXCEPT ![t] =
                     [@ EXCEPT !.pc = "unlock",
                               !.raised = IF jsonl = Absent THEN "FileNotFoundError"
                                          ELSE "none"]]
    /\ UNCHANGED <<meter, budgets, records, created, thresholds, callbacks, now, db, lock,
                   ret, calls, stderr>>

\* MemoryStorage.save: self._records.append(record)
MemSave(t) ==
    /\ threads[t].pc = "mem_save"
    /\ records' = Append(records, Val(threads[t].record))
    /\ threads' = [threads EXCEPT ![t].pc = "unlock"]
    /\ UNCHANGED <<meter, budgets, created, thresholds, callbacks, now, files, lock,
                   ret, calls, stderr>>

\* MemoryStorage.query: results = list(self._records)
MemQuery(t) ==
    /\ threads[t].pc = "mem_query"
    /\ threads' = [threads EXCEPT ![t] = [@ EXCEPT !.pc = "unlock", !.lines = records]]
    /\ UNCHANGED <<meter, budgets, records, created, thresholds, callbacks, now, files, lock,
                   ret, calls, stderr>>

\* MemoryStorage.clear: self._records.clear()
MemClear(t) ==
    /\ threads[t].pc = "mem_clear"
    /\ records' = <<>>
    /\ threads' = [threads EXCEPT ![t].pc = "unlock"]
    /\ UNCHANGED <<meter, budgets, created, thresholds, callbacks, now, files, lock,
                   ret, calls, stderr>>

\* with self._lock: exit, also when the block raised; the call returns (a
\* query after turning what it read into records) and is logged.
Release(t) ==
    /\ threads[t].pc = "unlock"
    /\ lock' = [lock EXCEPT ![threads[t].store] = None]
    /\ threads' = [threads EXCEPT ![t] =
                     [IdleThread EXCEPT
                               !.n = threads[t].n,
                               !.log = Append(threads[t].log,
                                                 [op     |-> threads[t].op,
                                                  store  |-> threads[t].store,
                                                  record |-> threads[t].record,
                                                  raised |-> threads[t].raised,
                                                  result |-> [i \in 1..Len(threads[t].lines) |->
                                                                threads[t].lines[i].id]])]]
    /\ UNCHANGED <<meter, budgets, records, created, thresholds, callbacks, now, files,
                   ret, calls, stderr>>

\* AlertManager.on_alert
OnAlert(cb) ==
    /\ Len(callbacks) < MaxCallbacks
    /\ callbacks' = Append(callbacks, cb)
    /\ ret' = [op |-> "on_alert", raised |-> "none"]
    /\ Quiet
    /\ UNCHANGED <<meter, budgets, records, created, thresholds, now, files, conc>>

\* AlertManager.set_thresholds
SetThresholds(percentages) ==
    /\ thresholds' = [k \in 1..Len(percentages) |-> AlertThreshold(sorted(percentages)[k])]
    /\ ret' = [op |-> "set_thresholds", percentages |-> percentages, raised |-> "none"]
    /\ Quiet
    /\ UNCHANGED <<meter, budgets, records, created, callbacks, now, files, conc>>

\* AlertManager.check_and_notify.  ret.repeat tells that the call directly
\* follows a check_and_notify call that returned, for the same user.
CheckAndNotify(user_id) ==
    /\ IF CheckRaises
       THEN /\ ret' = [op |-> "check_and_notify", user_id |-> user_id, raised |-> "ValueError"]
            /\ thresholds' = thresholds
            /\ Quiet
       ELSE LET r == check_and_notify(user_id)
            IN  /\ thresholds' = r.thresholds
                /\ calls' = r.calls
                /\ stderr' = r.stderr
                /\ ret' = [op |-> "check_and_notify", user_id |-> user_id,
                           raised |-> "none", value |-> r.messages,
                           repeat |-> (/\ ret.op = "check_and_notify"
                                       /\ ret.raised = "none"
                                       /\ ret.user_id = user_id)]
    /\ UNCHANGED <<meter, budgets, records, created, callbacks, now, files, conc>>

\* AlertManager.reset
Reset ==
    /\ thresholds' = [k \in 1..Len(thresholds) |-> [thresholds[k] EXCEPT !.triggered = FALSE]]
    /\ ret' = [op |-> "reset", raised |-> "none"]
    /\ Quiet
    /\ UNCHANGED <<meter, budgets, records, created, callbacks, now, files, conc>>

\* The wall clock, read at Sunday 12:00 and then every twelve hours:
\* Monday 00:00, Monday 12:00, Tuesday 00:00, ...
Clock(k) == 12 + 12 * k

Tick ==
    /\ now < Clock(MaxNow)
    /\ now' = now + 12
    /\ ret' = [op |-> "tick", raised |-> "none"]
    /\ Quiet
    /\ UNCHANGED <<meter, budgets, records, created, thresholds, callbacks, files, conc>>

\* ------------------------------------------------------------------ inputs
Costs == {0, 300000}
Percentages == {50, 100}
Callbacks == <<"cb1", "cb2", "cb3">>

\* Calls of set_budget(limit, period, scope, action): limits of $0, $0.003 and
\* $0.006, every period, the three kinds of scope, both actions, a period and
\* an action the documentation does not list.
BudgetInputs ==
    { [limit |-> 600000, period |-> "total",   scope |-> "global",     action |-> "warn"],
      [limit |-> 300000, period |-> "daily",   scope |-> "global",     action |-> "block"],
      [limit |-> 300000, period |-> "weekly",  scope |-> "user:alice", action |-> "block"],
      [limit |-> 600000, period |-> "monthly", scope |-> "session:s1", action |-> "warn"],
      [limit |-> 0,      period |-> "session", scope |-> "session:s1", action |-> "block"],
      [limit |-> 300000, period |-> "hourly",  scope |-> "global",     action |-> "warn"],
      [limit |-> 300000, period |-> "total",   scope |-> "global",     action |-> "log"] }

\* Calls of record_manual: 1000 input tokens of a known model ($0.003) by the
\* given (user, session) pairs; and a model without pricing entry.
RecordInputBy(who) ==
    \/ \E us \in who :
          RecordManual("claude-sonnet-4-5", 1000, 0, 0, 0, None, us[1], us[2], FALSE)
    \/ RecordManual("mystery-1", 1000, 0, 0, 0, None, None, None, FALSE)

RECURSIVE SeqsUpTo(_, _)
SeqsUpTo(S, n) ==
    IF n = 0 THEN {<<>>}
    ELSE SeqsUpTo(S, n - 1) \cup
         {Append(s, x) : s \in {t \in SeqsUpTo(S, n - 1) : Len(t) = n - 1}, x \in S}

RecordInput == RecordInputBy({<<None, None>>, <<"alice", "s1">>})

\* Records given to save(): two with the same id, one earlier than the one
\* saved before it, tags, an amount above one dollar, a water estimate.
SavedInputs ==
    { UsageRecord("a", 24, "anthropic", "claude-sonnet-4-5", 300000, "s1", "alice",
                  [env |-> "prod"], FALSE, 0),
      UsageRecord("b", 12, "openai", "gpt-4o", 250000, "s0", None,
                  <<>>, TRUE, 0),
      UsageRecord("a", 36, "anthropic", "claude-sonnet-4-5", 123456789, "s1", "alice",
                  [env |-> "prod", team |-> "x"], FALSE, 0),
      UsageRecord("c", 24, "anthropic", "claude-sonnet-4-5", 300000, "s1", "bob",
                  [env |-> "dev"], FALSE, 1234500000) }

\* Arguments of query(): none, each filter alone, several together, filters
\* nothing matches.
NoFilters ==
    [provider |-> None, model |-> None, user_id |-> None, session_id |-> None,
     since |-> Absent, until |-> Absent, tags |-> Absent]

FilterInputs ==
    { NoFilters,
      [NoFilters EXCEPT !.provider = "anthropic"],
      [NoFilters EXCEPT !.model = "gpt-4o"],
      [NoFilters EXCEPT !.user_id = "alice"],
      [NoFilters EXCEPT !.session_id = "s1"],
      [NoFilters EXCEPT !.since = Some(24)],
      [NoFilters EXCEPT !.until = Some(24)],
      [NoFilters EXCEPT !.tags = Some([env |-> "prod"])],
      [NoFilters EXCEPT !.tags = Some(<<>>)],
      [NoFilters EXCEPT !.tags = Some([env |-> "prod", team |-> "x"])],
      [NoFilters EXCEPT !.provider = "anthropic", !.since = Some(24), !.until = Some(24),
                        !.tags = Some([env |-> "prod"])],
      [NoFilters EXCEPT !.provider = "openai", !.user_id = "bob"] }

\* After construction: no budget, an empty store, the four default
\* thresholds, no callback.
Construct(user_id) ==
    /\ default_user_id = user_id
    /\ budgets = <<>>
    /\ records = <<>>
    /\ created = 0
    /\ thresholds = DefaultThresholds
    /\ callbacks = <<>>
    /\ jsonl = Absent
    /\ db = <<>>
    /\ lock = [s \in Stores |-> None]
    /\ threads = [t \in Threads |-> IdleThread]
    /\ now = Clock(0)
    /\ ret = [op |-> "init", raised |-> "none"]
    /\ calls = <<>>
    /\ stderr = <<>>

\* Meter()
Init == Construct(None)

\* Meter() or Meter(user_id="bob")
InitMeter == \E u \in {None, "bob"} : Construct(u)

\* The usage tracker and the budget manager's configuration and status
\* report, at one time of the clock.
StatusBudgetInputs == {b \in BudgetInputs : b.action # "log"}

NextBudget ==
    \/ \E b \in StatusBudgetInputs : SetBudget(b.limit, b.period, b.scope, b.action)
    \/ \E i \in 1..Len(budgets) : RemoveBudget(budgets[i])
    \/ \E u \in {None, "alice", "bob"} : Check(u)
    \/ RecordInput
    \/ Clear

SpecBudget == Init /\ [][NextBudget]_vars

\* The status report of the budgets of every known period, while the clock
\* advances from Sunday noon over Monday to the first of the month.
PeriodBudgetInputs == {b \in StatusBudgetInputs : b.period # "hourly"}

NextPeriod ==
    \/ \E b \in PeriodBudgetInputs : SetBudget(b.limit, b.period, b.scope, b.action)
    \/ \E u \in {None, "alice"} : Check(u)
    \/ RecordInput
    \/ Tick

SpecPeriod == Init /\ [][NextPeriod]_vars

\* The pre-flight checks of the budget manager, within one day.
EnforceBudgetInputs == {b \in BudgetInputs : b.period # "monthly"}

NextEnforce ==
    \/ \E b \in EnforceBudgetInputs : SetBudget(b.limit, b.period, b.scope, b.action)
    \/ \E c \in Costs, u \in {None, "alice"} : WouldExceed(c, u)
    \/ \E c \in Costs, u \in {None, "alice"} : Enforce(c, u)
    \/ RecordInput
    \/ Clear

SpecEnforce == Init /\ [][NextEnforce]_vars

\* The alert manager and its thresholds, over the budget manager and the
\* tracker, within one day and without callbacks.
AlertBudgetInputs ==
    {b \in BudgetInputs : b.period \in {"total", "daily", "session", "hourly"} /\ b.action # "log"}

NextAlerts ==
    \/ \E b \in AlertBudgetInputs : SetBudget(b.limit, b.period, b.scope, b.action)
    \/ RecordInputBy({<<None, None>>})
    \/ Clear
    \/ \E ps \in SeqsUpTo(Percentages, MaxThresholds) : SetThresholds(ps)
    \/ \E u \in {None, "alice"} : CheckAndNotify(u)
    \/ Reset

SpecAlerts == Init /\ [][NextAlerts]_vars

\* The delivery of alerts to callbacks, with the default thresholds.
NextDelivery ==
    \/ \E b \in AlertBudgetInputs : SetBudget(b.limit, b.period, b.scope, b.action)
    \/ RecordInputBy({<<None, None>>})
    \/ Clear
    \/ OnAlert(Callbacks[Len(callbacks) + 1])
    \/ \E u \in {None, "alice"} : CheckAndNotify(u)
    \/ Reset

SpecDelivery == Init /\ [][NextDelivery]_vars

\* The three record stores, driven by the same calls, with records that
\* carry no water estimate.
PlainInputs == {r \in SavedInputs : r.water_ml = 0}

NextStorage ==
    \/ \E r \in PlainInputs : Save(r)
    \/ ClearStores
    \/ \E f \in FilterInputs : QueryStores(f)
    \/ Reopen

SpecStorage == Init /\ [][NextStorage]_vars

\* The three record stores, saving any record and reading everything back.
NextRoundTrip ==
    \/ \E r \in SavedInputs : Save(r)
    \/ ClearStores
    \/ \E f \in {g \in FilterInputs : g.tags = Absent} : QueryStores(f)
    \/ Reopen

SpecRoundTrip == Init /\ [][NextRoundTrip]_vars

\* Two threads calling the in-memory store and the JSON-lines store.
NextThreads ==
    \E t \in Threads :
        \/ \E op \in {"save", "query", "clear"}, store \in Stores : Call(t, op, store)
        \/ Acquire(t)
        \/ JsonSaveOpen(t)
        \/ JsonSaveWrite(t)
        \/ JsonSaveFlush(t)
        \/ JsonQueryExists(t)
        \/ JsonQueryRead(t)
        \/ JsonClearExists(t)
        \/ JsonClearUnlink(t)
        \/ MemSave(t)
        \/ MemQuery(t)
        \/ MemClear(t)
        \/ Release(t)

SpecThreads == Init /\ [][NextThreads]_vars

\* The cost calculator, on token counts of every size.
TokenCounts == {0, 1000, 123456}
Models == {"claude-sonnet-4-5", "claude-sonnet-4-5-20250929", "gpt-4o", "mystery-1"}

NextCost ==
    \/ \E m \in Models, i, o, r, w \in TokenCounts : Calculate(m, i, o, r, w)
    \/ \E m \in Models, i, o, r, w \in TokenCounts : CalculateDetailed(m, i, o, r, w)

SpecCost == Init /\ [][NextCost]_vars

\* The tracker, recording responses and known token counts with and without
\* cached tokens.
Responses ==
    { [module |-> "anthropic.types.message", model |-> "claude-sonnet-4-5-20250929",
       input |-> 1000, output |-> 1000, cache_read |-> Some(1000), cache_write |-> Some(1000)],
      [module |-> "anthropic.types.message", model |-> "claude-sonnet-4-5",
       input |-> 1000, output |-> 0, cache_read |-> Some(0), cache_write |-> Absent],
      [module |-> "openai.types.chat", model |-> "gpt-4o",
       input |-> 1000, output |-> 1000, cache_read |-> Some(1000), cache_write |-> Absent],
      [module |-> "openai.types.chat", model |-> "mystery-1",
       input |-> 1000, output |-> 0, cache_read |-> Absent, cache_write |-> Absent],
      [module |-> "builtins", model |-> "gpt-4o",
       input |-> 1000, output |-> 0, cache_read |-> Absent, cache_write |-> Absent] }

ManualCounts == {<<1000, 0, 0, 0>>, <<1000, 1000, 1000, 1000>>, <<0, 0, 0, 1000>>}

NextRecord ==
    \/ \E x \in Responses, u \in {None, "alice"} : Record(x, u, None)
    \/ \E m \in {"claude-sonnet-4-5", "gpt-4o", "mystery-1"}, c \in ManualCounts,
          e \in BOOLEAN :
          RecordManual(m, c[1], c[2], c[3], c[4], None, None, "s1", e)
    \/ Clear

SpecRecord == Init /\ [][NextRecord]_vars

\* The calculator and the tracker, given model names in several spellings:
\* canonical, alias, upper case, surrounding white space, and names without
\* a pricing entry.
ModelSpellings ==
    {"claude-sonnet-4-5", "Claude-Sonnet-4-5-20250929 ", " GPT-4o",
     "mystery-1", " Mystery-1 ", "GPT 4o", ""}

SpelledResponses ==
    { [module |-> "anthropic.types.message", model |-> m,
       input |-> 1000, output |-> 1000, cache_read |-> Absent, cache_write |-> Absent]
      : m \in ModelSpellings }

NextUnknown ==
    \/ \E m \in ModelSpellings, i, o \in {0, 1000} : Calculate(m, i, o, 0, 0)
    \/ \E m \in ModelSpellings, i, o \in {0, 1000} : CalculateDetailed(m, i, o, 0, 0)
    \/ \E x \in SpelledResponses : Record(x, None, None)
    \/ \E m \in ModelSpellings, i \in {0, 1000} :
          RecordManual(m, i, 1000, 0, 0, None, None, None, FALSE)

SpecUnknown == Init /\ [][NextUnknown]_vars

\* The tracker's totals and summaries, over records of two models, given and
\* inferred providers, users (none, named, empty) and sessions.
GroupBys == {"model", "provider", "user_id", "session_id"}

NextSummary ==
    \/ \E m \in {"claude-sonnet-4-5", "gpt-4o"}, p \in {None, "azure"},
          u \in {None, "alice", ""}, z \in {None, "s1"} :
          RecordManual(m, 1000, 0, 0, 0, p, u, z, FALSE)
    \/ \E g \in GroupBys : GetSummary(g)
    \/ GetTotal
    \/ Clear

SpecSummary == Init /\ [][NextSummary]_vars

\* The Meter recording responses for several users, with budgets, callbacks
\* and the default thresholds; no reset, no clear.  Meter.record passes no
\* session id, so the budgets are the global and the per-user ones.
MeterBudgetInputs ==
    {b \in BudgetInputs : /\ b.limit > 0
                          /\ b.period \in ValidPeriods
                          /\ b.action \in ValidActions
                          /\ b.scope \in {"global", "user:alice"}}

MeterResponses ==
    { [module |-> "anthropic.types.message", model |-> "claude-sonnet-4-5",
       input |-> 1000, output |-> 0, cache_read |-> Absent, cache_write |-> Absent],
      [module |-> "anthropic.types.message", model |-> "mystery-1",
       input |-> 1000, output |-> 0, cache_read |-> Absent, cache_write |-> Absent],
      [module |-> "builtins", model |-> "claude-sonnet-4-5",
       input |-> 1000, output |-> 0, cache_read |-> Absent, cache_write |-> Absent] }

NextMeter ==
    \/ \E b \in MeterBudgetInputs : SetBudget(b.limit, b.period, b.scope, b.action)
    \/ OnAlert(Callbacks[Len(callbacks) + 1])
    \/ \E x \in MeterResponses, u \in {None, "alice"} : MeterRecord(x, u)

SpecMeter == InitMeter /\ [][NextMeter]_vars

\* The alert manager over two global budgets that the same records fill,
\* while budgets are added and removed and the store is filled and cleared.
SharedBudgetInputs ==
    {b \in BudgetInputs : b.scope = "global" /\ b.limit > 0 /\ b.period \in {"total", "daily"}
                          /\ b.action # "log"}

NextShared ==
    \/ \E b \in SharedBudgetInputs : SetBudget(b.limit, b.period, b.scope, b.action)
    \/ \E i \in 1..Len(budgets) : RemoveBudget(budgets[i])
    \/ RecordManual("claude-sonnet-4-5", 1000, 0, 0, 0, None, None, None, FALSE)
    \/ Clear
    \/ \E ps \in SeqsUpTo(Percentages, MaxThresholds) : SetThresholds(ps)
    \/ CheckAndNotify(None)
    \/ Reset

SpecShared == Init /\ [][NextShared]_vars

\* The tracker given responses and token counts it can and cannot record,
\* with budgets, totals and summaries read in between.
FailedBudgetInputs ==
    {b \in BudgetInputs : b.limit > 0 /\ b.period \in {"total", "daily"}
                          /\ b.action \in ValidActions}

NextFailed ==
    \/ \E b \in FailedBudgetInputs : SetBudget(b.limit, b.period, b.scope, b.action)
    \/ \E x \in MeterResponses, u \in {None, "alice"} : Record(x, u, None)
    \/ \E m \in {"gpt-4o", "mystery-1"} :
          RecordManual(m, 1000, 0, 0, 0, None, None, None, FALSE)
    \/ \E u \in {None, "alice"} : Check(u)
    \/ GetTotal
    \/ GetSummary("model")

SpecFailed == Init /\ [][NextFailed]_vars

\* The checks of the budget manager and of the alert manager, on budgets
\* that block and warn, as the store fills.
FrameBudgetInputs ==
    {b \in BudgetInputs : b.limit > 0 /\ b.scope = "global" /\ b.action # "log"}

NextFrame ==
    \/ \E b \in FrameBudgetInputs : SetBudget(b.limit, b.period, b.scope, b.action)
    \/ RecordManual("claude-sonnet-4-5", 1000, 0, 0, 0, None, None, None, FALSE)
    \/ Check(None)
    \/ \E c \in Costs : WouldExceed(c, None)
    \/ \E c \in Costs : Enforce(c, None)
    \/ CheckAndNotify(None)
    \/ OnAlert(Callbacks[Len(callbacks) + 1])

SpecFrame == Init /\ [][NextFrame]_vars

\* Budgets of limit 0 beside a budget of $0.006, with thresholds of 0%, 50%
\* and 100%.
ZeroBudgetInputs ==
    {b \in BudgetInputs : b.limit = 0} \cup
    { [limit |-> 0, period |-> "total", scope |-> "global", action |-> "warn"],
      [limit |-> 0, period |-> "daily", scope |-> "user:alice", action |-> "block"],
      [limit |-> 600000, period |-> "total", scope |-> "global", action |-> "warn"] }

NextZero ==
    \/ \E b \in ZeroBudgetInputs : SetBudget(b.limit, b.period, b.scope, b.action)
    \/ RecordInput
    \/ \E u \in {None, "alice"} : Check(u)
    \/ \E u \in {None, "alice"} : CheckAndNotify(u)
    \/ \E ps \in {<<50, 0>>, <<100>>} : SetThresholds(ps)
    \/ Reset

SpecZero == Init /\ [][NextZero]_vars

\* ------------------------------------------------------ what the claims use
\* The records a budget counts, stated from the documentation of periods and
\* scopes rather than from the filter chain of the store.
Latest(S, t) == CHOOSE m \in S : m <= t /\ \A k \in S : k <= t => k <= m
Midnights == {24 * d : d \in (0 - 30)..40}
Mondays == {24 * (1 + 7 * w) : w \in (0 - 2)..5}
MonthStarts == {0 - 29 * 24, 48, 32 * 24}
MondayOnOrBefore(t) == Latest(Mondays, t)
MonthBegin(t) == Latest(MonthStarts, t)

InWindow(r, period) ==
    CASE period = "daily"   -> r.timestamp >= Latest(Midnights, now)
      [] period = "weekly"  -> r.timestamp >= MondayOnOrBefore(now)
      [] period = "monthly" -> r.timestamp >= MonthBegin(now)
      [] OTHER              -> TRUE

InScope(r, scope, user_id) ==
    CASE scope = "global"     -> user_id = None \/ r.user_id = user_id
      [] scope = "user:alice" -> r.user_id = "alice"
      [] scope = "user:bob"   -> r.user_id = "bob"
      [] scope = "session:s0" -> r.session_id = "s0"
      [] scope = "session:s1" -> r.session_id = "s1"
      [] OTHER                -> TRUE

Spent(config, user_id) ==
    SumSeq([k \in 1..Len(records) |->
              IF InWindow(records[k], config.period) /\ InScope(records[k], config.scope, user_id)
              THEN records[k].total_cost ELSE 0])

\* The utilization of a budget is at or above a percentage.
AtOrAbove(config, user_id, pct) ==
    IF config.limit > 0 THEN Spent(config, user_id) * 100 >= pct * config.limit ELSE pct <= 0

\* Threshold j is armed and some budget is at or above it.
Crossed(j, user_id) ==
    \E i \in 1..Len(budgets) : AtOrAbove(budgets[i], user_id, thresholds[j].percentage)
FiresNow(j, user_id) == ~thresholds[j].triggered /\ Crossed(j, user_id)

\* The step is a check_and_notify call that returned.
NotifyStep == ret'.op = "check_and_notify" /\ ret'.raised = "none"
NotifyDone == ret.op = "check_and_notify" /\ ret.raised = "none"

\* C1: alert idempotence.  A check_and_notify call that directly follows a
\* check_and_notify call for the same user returns no message and delivers
\* nothing; a check_and_notify call that directly follows reset() fires every
\* threshold that some budget is at or above.
C1_AlertIdempotence ==
    [][ /\ (NotifyStep /\ ret'.repeat)
            => (ret'.value = <<>> /\ calls' = <<>> /\ stderr' = <<>>)
        /\ (ret.op = "reset" /\ NotifyStep)
            => \A j \in 1..Len(thresholds) :
                 Crossed(j, ret'.user_id)
                 => /\ thresholds'[j].triggered
                    /\ \E m \in 1..Len(ret'.value) :
                         ret'.value[m].pct = thresholds[j].percentage ]_vars

\* C1 witness: a check_and_notify call that directly followed another one
\* stayed silent although a threshold that had fired is still crossed.
C1_Witness ==
    /\ NotifyDone
    /\ ret.repeat
    /\ ret.value = <<>>
    /\ \E j \in 1..Len(thresholds) : thresholds[j].triggered /\ Crossed(j, ret.user_id)

\* C2: in one check_and_notify call a threshold becomes triggered, and
\* produces one message, exactly when it was armed and some budget is at or
\* above its percentage; every message is for a budget at or above the
\* percentage it names; every other threshold keeps its flag and is silent.
C2_FiresExactlyWhenCrossed ==
    [][ NotifyStep =>
        /\ Len(thresholds') = Len(thresholds)
        /\ \A j \in 1..Len(thresholds) :
             /\ thresholds'[j].percentage = thresholds[j].percentage
             /\ thresholds'[j].triggered = (thresholds[j].triggered \/ FiresNow(j, ret'.user_id))
        /\ \A p \in {thresholds[j].percentage : j \in 1..Len(thresholds)} :
             Cardinality({m \in 1..Len(ret'.value) : ret'.value[m].pct = p})
               = Cardinality({j \in 1..Len(thresholds) :
                                thresholds[j].percentage = p /\ FiresNow(j, ret'.user_id)})
        /\ \A m \in 1..Len(ret'.value) :
             /\ ret'.value[m].limit > 0
             /\ ret'.value[m].spent * 100 >= ret'.value[m].pct * ret'.value[m].limit ]_vars

\* C2 witness: a call fired some threshold and left another one armed.
C2_Witness ==
    /\ NotifyDone
    /\ Len(ret.value) > 0
    /\ \E j \in 1..Len(thresholds) : ~thresholds[j].triggered

\* The pairs (budget i, threshold j) a call fires: threshold j is armed and
\* budget i is the first one at or above it; listed budget by budget and,
\* within a budget, threshold by threshold.
FiringPair(i, j, user_id) ==
    /\ ~thresholds[j].triggered
    /\ AtOrAbove(budgets[i], user_id, thresholds[j].percentage)
    /\ \A h \in 1..(i - 1) : ~AtOrAbove(budgets[h], user_id, thresholds[j].percentage)

FiringOrder(user_id) ==
    LET nT == Len(thresholds)
        all == [k \in 1..(Len(budgets) * nT) |-> <<((k - 1) \div nT) + 1, ((k - 1) % nT) + 1>>]
    IN  SelectSeq(all, LAMBDA q : FiringPair(q[1], q[2], user_id))

\* C3: the messages of one check_and_notify call come budget by budget in
\* configuration order and, within a budget, in ascending percentage; every
\* newly crossed threshold is among them; the callback invocations and the
\* lines on stderr come in the same order.
C3_FiringOrder ==
    [][ NotifyStep =>
        LET order == FiringOrder(ret'.user_id)
            nC    == Len(callbacks)
        IN  /\ Len(ret'.value) = Len(order)
            /\ \A m \in 1..Len(order) :
                 LET b == budgets[order[m][1]]
                     t == thresholds[order[m][2]]
                 IN  /\ ret'.value[m].pct = t.percentage
                     /\ ret'.value[m].limit = b.limit
                     /\ ret'.value[m].period = b.period
                     /\ ret'.value[m].scope = b.scope
                     /\ ret'.value[m].spent = Spent(b, ret'.user_id)
            /\ \A m \in 1..(Len(order) - 1) :
                 \/ order[m][1] < order[m + 1][1]
                 \/ /\ order[m][1] = order[m + 1][1]
                    /\ ret'.value[m].pct <= ret'.value[m + 1].pct
            /\ \A c \in 1..Len(calls') : calls'[c].msg = ret'.value[((c - 1) \div nC) + 1]
            /\ \A e \in 1..Len(stderr') : stderr'[e] = ret'.value[e] ]_vars

\* C3 witness: one call fired a threshold for one budget and then two
\* thresholds for a later budget.
C3_Witness ==
    /\ NotifyDone
    /\ \E m \in 2..(Len(ret.value) - 1) :
         /\ ret.value[m].pct < ret.value[m + 1].pct
         /\ ret.value[m].period = ret.value[m + 1].period
         /\ ret.value[m].limit = ret.value[m + 1].limit
         /\ ret.value[m - 1].period # ret.value[m].period

\* C4: after set_thresholds(percentages) the threshold list has one
\* threshold per given percentage, in ascending order, all armed.
C4_SetThresholds ==
    ret.op = "set_thresholds" =>
        /\ Len(thresholds) = Len(ret.percentages)
        /\ \A k \in 1..Len(thresholds) : ~thresholds[k].triggered
        /\ \A k \in 1..(Len(thresholds) - 1) :
             thresholds[k].percentage <= thresholds[k + 1].percentage
        /\ \A p \in Percentages :
             Cardinality({k \in 1..Len(thresholds) : thresholds[k].percentage = p})
               = Cardinality({k \in 1..Len(ret.percentages) : ret.percentages[k] = p})

\* C4 witness: set_thresholds was given percentages in descending order.
C4_Witness ==
    /\ ret.op = "set_thresholds"
    /\ Len(ret.percentages) = 2
    /\ ret.percentages[1] > ret.percentages[2]

\* C5: every message of a check_and_notify call is delivered: with callbacks
\* registered, to each of them once, in registration order, with the status
\* the message is about, and not to stderr; with none, to stderr once.
C5_EveryAlertDelivered ==
    NotifyDone =>
        LET nC == Len(callbacks)
        IN  IF nC > 0
            THEN /\ stderr = <<>>
                 /\ Len(calls) = Len(ret.value) * nC
                 /\ \A m \in 1..Len(ret.value), k \in 1..nC :
                      LET c == calls[(m - 1) * nC + k]
                      IN  /\ c.callback = callbacks[k]
                          /\ c.msg = ret.value[m]
                          /\ c.status.spent = ret.value[m].spent
                          /\ c.status.config.limit = ret.value[m].limit
                          /\ c.status.config.scope = ret.value[m].scope
            ELSE /\ calls = <<>>
                 /\ stderr = ret.value

\* C5 witness: a call fired an alert with two callbacks registered.
C5_Witness ==
    /\ NotifyDone
    /\ Len(callbacks) = 2
    /\ Len(ret.value) > 0
    /\ Len(calls) = 2 * Len(ret.value)

\* C6: would_exceed(cost, user_id) returns true exactly when the spend of
\* some budget plus cost meets or exceeds (>=) the limit of that budget.
C6_WouldExceedMeetsLimit ==
    (ret.op = "would_exceed" /\ ret.raised = "none") =>
        ret.value = (\E i \in 1..Len(budgets) :
                       Spent(budgets[i], ret.user_id) + ret.cost >= budgets[i].limit)

\* The block budgets that cost would bring to their limit or beyond.
Violating(cost, user_id) ==
    {i \in 1..Len(budgets) :
        /\ budgets[i].action = "block"
        /\ Spent(budgets[i], user_id) + cost >= budgets[i].limit}

\* C7: enforce(cost, user_id) raises BudgetExceededError with the status of
\* the first block budget whose spend plus cost meets or exceeds (>=) its
\* limit, and returns normally when there is none.
C7_EnforceBlocksAtLimit ==
    ret.op = "enforce" =>
        LET V == Violating(ret.cost, ret.user_id)
        IN  IF V = {}
            THEN ret.raised = "none"
            ELSE /\ ret.raised = "BudgetExceededError"
                 /\ LET first == CHOOSE i \in V : \A h \in V : i <= h
                    IN  /\ ret.status.config = budgets[first]
                        /\ ret.status.spent = Spent(budgets[first], ret.user_id)

\* C8: every status check returns has spent = the sum of total_cost of the
\* records in the period and scope of its budget, remaining = max(0, limit -
\* spent), utilization = spent / limit (0 when the limit is 0, not capped at
\* 1) and is_exceeded exactly when spent >= limit.
C8_StatusFields ==
    (ret.op = "check" /\ ret.raised = "none") =>
        /\ Len(ret.value) = Len(budgets)
        /\ \A i \in 1..Len(budgets) :
             LET st == ret.value[i]
                 b  == budgets[i]
                 sp == Spent(b, ret.user_id)
             IN  /\ st.spent = sp
                 /\ st.remaining = (IF b.limit - sp > 0 THEN b.limit - sp ELSE 0)
                 /\ st.remaining >= 0
                 /\ st.utilization = (IF b.limit = 0
                                      THEN [num |-> 0, den |-> 1]
                                      ELSE [num |-> sp, den |-> b.limit])
                 /\ st.is_exceeded = (sp >= b.limit)

\* C8 witness: check reported a budget spent to twice its limit, with nothing
\* remaining.
C8_Witness ==
    /\ ret.op = "check"
    /\ ret.raised = "none"
    /\ \E i \in 1..Len(ret.value) :
         /\ ret.value[i].config.limit > 0
         /\ ret.value[i].spent = 2 * ret.value[i].config.limit
         /\ ret.value[i].remaining = 0
         /\ ret.value[i].is_exceeded

RECURSIVE CostOf(_)
CostOf(K) ==
    IF K = {} THEN 0
    ELSE LET k == CHOOSE x \in K : TRUE IN records[k].total_cost + CostOf(K \ {k})

\* C9: in check(user_id) a "global" budget counts all records of its period,
\* or those of user_id when one is passed; a "user:X" budget counts the
\* records of user X whatever user_id is; a "session:X" budget counts the
\* records of session X.
C9_ScopeResolution ==
    (ret.op = "check" /\ ret.raised = "none") =>
        \A i \in 1..Len(budgets) :
            LET b      == budgets[i]
                inTime == {k \in 1..Len(records) : InWindow(records[k], b.period)}
            IN  /\ (b.scope = "global" /\ ret.user_id = None)
                     => ret.value[i].spent = CostOf(inTime)
                /\ (b.scope = "global" /\ ret.user_id # None)
                     => ret.value[i].spent =
                          CostOf({k \in inTime : records[k].user_id = ret.user_id})
                /\ b.scope = "user:alice"
                     => ret.value[i].spent =
                          CostOf({k \in inTime : records[k].user_id = "alice"})
                /\ b.scope = "session:s1"
                     => ret.value[i].spent =
                          CostOf({k \in inTime : records[k].session_id = "s1"})

\* C9 witness: check was called for bob and reported alice's spending on a
\* "user:alice" budget, while records of other users were in the store.
C9_Witness ==
    /\ ret.op = "check"
    /\ ret.raised = "none"
    /\ ret.user_id = "bob"
    /\ \E k \in 1..Len(records) : records[k].user_id = None
    /\ \E i \in 1..Len(ret.value) :
         /\ ret.value[i].config.scope = "user:alice"
         /\ ret.value[i].spent > 0

\* C10: the budget list never holds a configuration whose period or action
\* is not one of the documented ones: set_budget rejects it.
C10_NoInvalidConfig ==
    \A i \in 1..Len(budgets) :
        /\ budgets[i].period \in ValidPeriods
        /\ budgets[i].action \in ValidActions

\* The lower time bound of a period at the current instant, from the
\* calendar: the midnight that began today, the Monday 00:00 that began this
\* week, the first of the month 00:00 that began this month.
LowerBound(period) ==
    CASE period = "daily" ->
           Some(CHOOSE m \in Midnights : m <= now /\ now < m + 24)
      [] period = "weekly" ->
           Some(CHOOSE m \in Mondays : m <= now /\ now < m + 7 * 24)
      [] period = "monthly" ->
           Some(CHOOSE m \in MonthStarts : m <= now /\ \A k \in MonthStarts : k <= m \/ now < k)
      [] OTHER -> Absent

\* C11: the spent total check reports for a budget counts, among the records
\* of the budget's scope, exactly those timestamped at or after the lower
\* bound of its period (that day's midnight, the most recent Monday 00:00,
\* the first of the month 00:00); "total" and "session" have no bound.
C11_PeriodWindow ==
    (ret.op = "check" /\ ret.raised = "none") =>
        \A i \in 1..Len(budgets) :
            LET b       == budgets[i]
                bound   == LowerBound(b.period)
                inScope == {k \in 1..Len(records) : InScope(records[k], b.scope, ret.user_id)}
                before  == {k \in inScope : bound # Absent /\ records[k].timestamp < Val(bound)}
            IN  /\ ret.value[i].spent = CostOf(inScope \ before)
                /\ b.period \in {"total", "session"} => before = {}

\* C11 witness: at Monday noon check reported, for a daily budget, the record
\* made at Monday 00:00 and not the one made on Sunday.
C11_Witness ==
    /\ ret.op = "check"
    /\ ret.raised = "none"
    /\ now = 36
    /\ \E k \in 1..Len(records) : records[k].timestamp = 12 /\ records[k].total_cost > 0
    /\ \E k \in 1..Len(records) : records[k].timestamp = 24 /\ records[k].total_cost > 0
    /\ \E i \in 1..Len(ret.value) :
         /\ ret.value[i].config.period = "daily"
         /\ ret.value[i].config.scope = "global"
         /\ ret.user_id = None
         /\ ret.value[i].spent = 300000

\* A sequence without its element at position i.
Without(s, i) == SubSeq(s, 1, i - 1) \o SubSeq(s, i + 1, Len(s))

\* C12: set_budget appends the new config at the end of the budget list and
\* returns it; remove_budget removes that config and keeps the others in
\* order; after any such calls check returns one status per configured
\* budget, in configuration order, each referencing its config.
C12_OrderedBudgets ==
    [][ /\ ret'.op = "set_budget"
            => /\ ret'.raised = "none"
               /\ budgets' = Append(budgets, ret'.value)
        /\ (ret'.op = "remove_budget" /\ ret'.raised = "none")
            => \E i \in 1..Len(budgets) :
                 /\ budgets[i] = ret'.config
                 /\ budgets' = Without(budgets, i)
        /\ ret'.op = "check"
            => /\ budgets' = budgets
               /\ ret'.raised = "none"
               /\ Len(ret'.value) = Len(budgets)
               /\ \A i \in 1..Len(budgets) : ret'.value[i].config = budgets[i] ]_vars

\* The elements of a sequence.
Range(s) == {s[i] : i \in 1..Len(s)}

\* C13: driven by the same save, clear and query calls, the in-memory, the
\* JSON-lines and the SQLite store return the same records in the same order
\* at every query.
C13_BackendsAgree ==
    ret.op = "query" => (ret.memory = ret.json /\ ret.json = ret.sqlite)

\* C14: a query without filters that follows save(r), directly or after the
\* file-backed stores were opened again, returns from every store a record
\* equal to r in all fields.
C14_RoundTrip ==
    (ret.op = "query" /\ ret.filters = NoFilters /\ ret.after # Absent) =>
        /\ Val(ret.after) \in Range(ret.memory)
        /\ Val(ret.after) \in Range(ret.json)
        /\ Val(ret.after) \in Range(ret.sqlite)

\* A record satisfies every filter that is supplied: the bounds since and
\* until are inclusive, and every supplied tag is present with that value.
Matches(r, f) ==
    /\ f.provider # None => r.provider = f.provider
    /\ f.model # None => r.model = f.model
    /\ f.user_id # None => r.user_id = f.user_id
    /\ f.session_id # None => r.session_id = f.session_id
    /\ f.since # Absent => r.timestamp >= Val(f.since)
    /\ f.until # Absent => r.timestamp <= Val(f.until)
    /\ f.tags # Absent =>
          \A k \in DOMAIN Val(f.tags) : k \in DOMAIN r.tags /\ r.tags[k] = Val(f.tags)[k]

\* C15: for any combination of filters, query(filters) returns exactly those
\* records of query() that satisfy every supplied filter, in each store.
C15_FilterConjunction ==
    ret.op = "query" =>
        LET f == ret.filters
        IN  /\ ret.memory =
                 SelectSeq(query(None, None, None, None, Absent, Absent, Absent),
                           LAMBDA r : Matches(r, f))
            /\ ret.json =
                 SelectSeq(json_query(None, None, None, None, Absent, Absent, Absent),
                           LAMBDA r : Matches(r, f))
            /\ \E all \in sql_query(None, None, None, None, Absent, Absent, Absent) :
                 ret.sqlite = SelectSeq(all, LAMBDA r : Matches(r, f))

\* C15 witness: a query with four filters returned some of the stored
\* records and left out others; the until bound equals the timestamp of a
\* returned record.
C15_Witness ==
    /\ ret.op = "query"
    /\ ret.filters.provider # None
    /\ ret.filters.since # Absent
    /\ ret.filters.until # Absent
    /\ ret.filters.tags # Absent
    /\ Len(ret.memory) > 0
    /\ Len(ret.memory) < Len(records)
    /\ Len(ret.sqlite) > 0
    /\ \E i \in 1..Len(ret.memory) : ret.memory[i].timestamp = Val(ret.filters.until)

\* A sequence of records whose timestamps do not decrease.
ByTime(rs) == \A i \in 1..(Len(rs) - 1) : rs[i].timestamp <= rs[i + 1].timestamp

\* C16: every store returns the records of a query ordered by timestamp,
\* whatever the order in which they were saved.
C16_OrderedByTime ==
    ret.op = "query" => (ByTime(ret.memory) /\ ByTime(ret.json) /\ ByTime(ret.sqlite))

\* query() without filters, on each store.
QueryAll == query(None, None, None, None, Absent, Absent, Absent)
JsonQueryAll == json_query(None, None, None, None, Absent, Absent, Absent)
SqlQueryAll == sql_query(None, None, None, None, Absent, Absent, Absent)

\* C17: clear() succeeds, also on an empty store and directly after another
\* clear(), and query() then returns nothing from any store; a record saved
\* after it is what query() returns again.
C17_ClearIdempotent ==
    [][ /\ ret'.op = "clear"
            => /\ ret'.raised = "none"
               /\ QueryAll' = <<>>
               /\ JsonQueryAll' = <<>>
               /\ SqlQueryAll' = {<<>>}
        /\ (ret.op = "clear" /\ ret'.op = "query")
            => /\ ret'.memory = <<>>
               /\ ret'.json = <<>>
               /\ ret'.sqlite = <<>>
        /\ (ret.op = "clear" /\ ret'.op = "save")
            => /\ QueryAll' = <<ret'.record>>
               /\ JsonQueryAll' = <<ret'.record>>
               /\ SqlQueryAll' = {<<ret'.record>>} ]_vars

\* C17 witness: a clear() directly followed another clear().
C17_Witness ==
    /\ ret.op = "clear"
    /\ ret.raised = "none"
    /\ ret.repeat
    /\ records = <<>>

\* The calls on a store: completed ones, from the logs, and all ones.
Completed(store) ==
    UNION {{threads[t].log[i] : i \in {j \in 1..Len(threads[t].log) :
                                          threads[t].log[j].store = store}} : t \in Threads}
Running(store) == {t \in Threads : threads[t].pc # "idle" /\ threads[t].store = store}
Inside(t) == threads[t].pc \notin {"idle", "lock"}
Stored(store) ==
    IF store = "memory" THEN {QueryAll[i].id : i \in 1..Len(QueryAll)}
    ELSE {JsonQueryAll[i].id : i \in 1..Len(JsonQueryAll)}

\* C18: a thread is inside a call on a store only while it holds the lock of
\* that store; no call raises; a query returns whole records of save calls,
\* each once; and while no clear has been called on a store, every record
\* whose save has returned is in the store.
C18_ThreadSafe ==
    /\ \A t \in Threads : Inside(t) => lock[threads[t].store] = t
    /\ \A t \in Threads : threads[t].raised = "none"
    /\ \A store \in Stores :
         /\ \A c \in Completed(store) :
              /\ c.raised = "none"
              /\ c.op = "query" =>
                   /\ \A i, j \in 1..Len(c.result) : c.result[i] = c.result[j] => i = j
                   /\ \A i \in 1..Len(c.result) :
                        \E t \in Threads : \E k \in 1..threads[t].n :
                            c.result[i] = ThreadIds[t][k]
         /\ ((\A c \in Completed(store) : c.op # "clear")
                /\ (\A t \in Running(store) : threads[t].op # "clear"))
              => \A c \in Completed(store) :
                   c.op = "save" => Val(c.record).id \in Stored(store)

\* C18 witness: a thread waits for the lock of the JSON-lines store with a
\* query while another one, holding it, is between the two parts of the
\* write of a save.
C18_Witness ==
    \E t, u \in Threads :
        /\ threads[t].pc = "save_flush"
        /\ threads[u].pc = "lock"
        /\ threads[u].store = "json"
        /\ threads[u].op = "query"
        /\ lock["json"] = t

\* C19: every record the tracker has created has a total_cost equal to the
\* sum of the itemized cost fields it stores (input_cost and output_cost),
\* also when cached tokens were counted.
C19_TotalIsSumOfItems ==
    \A k \in 1..Len(records) :
        records[k].total_cost = records[k].input_cost + records[k].output_cost

\* The price of one token of each category of a model, in 10^-8 dollars: the
\* price per million tokens in dollars, times 100.
PerToken(model) ==
    LET p == PricingTable[Resolve(model)]
    IN  [c \in {"input", "output", "cache_read", "cache_write"} |-> Val(p[c])]
FullPricing(model) ==
    /\ KnownModel(model)
    /\ \A c \in {"input", "output", "cache_read", "cache_write"} :
         PricingTable[Resolve(model)][c] # Absent

\* C20: for a model with full pricing, calculate returns the total_cost of
\* calculate_detailed, and that total is the sum of the four category costs,
\* each being (tokens / 1,000,000) * price per million.
C20_CostArithmetic ==
    /\ (ret.op = "calculate" /\ ret.raised = "none" /\ FullPricing(ret.model)) =>
          ret.value = calculate_detailed(ret.model, ret.tokens[1], ret.tokens[2],
                                         ret.tokens[3], ret.tokens[4]).total_cost
    /\ (ret.op = "calculate_detailed" /\ ret.raised = "none" /\ FullPricing(ret.model)) =>
          LET v  == ret.value
              pt == PerToken(ret.model)
          IN  /\ v.total_cost = v.input_cost + v.output_cost
                                   + v.cache_read_cost + v.cache_write_cost
              /\ v.total_cost = calculate(ret.model, ret.tokens[1], ret.tokens[2],
                                          ret.tokens[3], ret.tokens[4])
              /\ v.input_cost = ret.tokens[1] * pt["input"]
              /\ v.output_cost = ret.tokens[2] * pt["output"]
              /\ v.cache_read_cost = ret.tokens[3] * pt["cache_read"]
              /\ v.cache_write_cost = ret.tokens[4] * pt["cache_write"]

\* C20 witness: calculate was called with all four counts above zero for a
\* model with full pricing, given by an alias.
C20_Witness ==
    /\ ret.op = "calculate"
    /\ ret.raised = "none"
    /\ ret.model = "claude-sonnet-4-5-20250929"
    /\ \A i \in 1..4 : ret.tokens[i] = 123456
    /\ ret.value = 123456 * (300 + 1500 + 30 + 375)

\* The model strings of ModelSpellings that are neither a model of the
\* pricing table nor an alias, whatever their case and surrounding space.
Unpriced == {"mystery-1", " Mystery-1 ", "GPT 4o", ""}

\* C21: calculate, calculate_detailed, record and record_manual raise
\* UnknownModelError for every model string without a pricing entry after
\* lower-casing, trimming and alias resolution, and return no cost value and
\* create no record for it; the other spellings are priced.
C21_UnknownModelRaises ==
    (/\ ret.op \in {"calculate", "calculate_detailed", "record", "record_manual"}
     /\ "model" \in DOMAIN ret)
    => /\ ret.model \in Unpriced =>
            /\ ret.raised = "UnknownModelError"
            /\ "value" \notin DOMAIN ret
       /\ ret.model \in ModelSpellings \ Unpriced => ret.raised = "none"
       /\ \A k \in 1..Len(records) : records[k].model \notin Unpriced

\* C21 witness: record_manual raised for a model name with upper case and
\* surrounding space that has no pricing entry, after a record was made for
\* an alias spelled with upper case and trailing space.
C21_Witness ==
    /\ ret.op = "record_manual"
    /\ ret.model = " Mystery-1 "
    /\ ret.raised = "UnknownModelError"
    /\ \E k \in 1..Len(records) : records[k].model = "Claude-Sonnet-4-5-20250929 "

\* The sum of the values of a mapping.
RECURSIVE SumOfBuckets(_)
SumOfBuckets(f) ==
    IF DOMAIN f = {} THEN 0
    ELSE LET k == CHOOSE x \in DOMAIN f : TRUE
         IN  f[k] + SumOfBuckets([j \in DOMAIN f \ {k} |-> f[j]])

\* The summary that puts the records for which Bucket gives the same key
\* together.
SummaryBy(Bucket(_)) ==
    /\ DOMAIN ret.value = {Bucket(records[k][ret.group_by]) : k \in 1..Len(records)}
    /\ \A key \in DOMAIN ret.value :
         ret.value[key] =
            CostOf({k \in 1..Len(records) : Bucket(records[k][ret.group_by]) = key})
    /\ SumOfBuckets(ret.value) = get_total(None, None, Absent)
    /\ SumOfBuckets(ret.value) = CostOf(1..Len(records))

AbsentToUnknown(v) == IF v = None THEN "unknown" ELSE v
MissingToUnknown(v) == IF v = None \/ v = "" THEN "unknown" ELSE v

\* C22 as stated: get_summary(group_by) has one bucket for each value of the
\* attribute, an absent value going to "unknown" and every other value to
\* itself, each bucket is the sum of total_cost of its records, and the
\* buckets add up to get_total(), the sum over all records.
C22_SummaryByValue ==
    /\ ret.op = "get_summary" => SummaryBy(AbsentToUnknown)
    /\ ret.op = "get_total" => ret.value = CostOf(1..Len(records))

\* C22 amended: the same, with the "unknown" bucket holding the records
\* whose attribute is absent or the empty string.
C22_SummaryByBucket ==
    /\ ret.op = "get_summary" => SummaryBy(MissingToUnknown)
    /\ ret.op = "get_total" => ret.value = CostOf(1..Len(records))

\* C22 witness: a summary by user of two records, one without user and one
\* of alice, with a bucket for each.
C22_Witness ==
    /\ ret.op = "get_summary"
    /\ ret.group_by = "user_id"
    /\ Len(records) = 2
    /\ DOMAIN ret.value = {"unknown", "alice"}
    /\ ret.value["unknown"] > 0
    /\ ret.value["alice"] > 0

\* C23: whatever is called on the stores except clear(), every record that
\* an unfiltered query returned before the call is returned after it, with
\* all its fields, by the in-memory, the JSON-lines and the SQLite store.
C23_RecordsKept ==
    [][ ret'.op # "clear"
            => /\ Range(QueryAll) \subseteq Range(QueryAll')
               /\ Range(JsonQueryAll) \subseteq Range(JsonQueryAll')
               /\ \A before \in SqlQueryAll, after \in SqlQueryAll' :
                     Range(before) \subseteq Range(after) ]_vars

\* C24: the SQLite store returns the record saved last with the water_ml it
\* was saved with: w for a record saved with water_ml = w, and 0 for a
\* record saved without one.
C24_WaterPersisted ==
    (ret.op = "query" /\ ret.filters = NoFilters /\ ret.after # Absent) =>
        \E k \in 1..Len(ret.sqlite) :
            /\ ret.sqlite[k].id = Val(ret.after).id
            /\ ret.sqlite[k].water_ml = Val(ret.after).water_ml

\* The effective user id of a Meter.record call.
Effective(user_id) == IF user_id = None THEN default_user_id ELSE user_id

\* Some budget is at or above a percentage when the store holds the records
\* rs, for the user id the check is made with.
RECURSIVE SpentOf(_, _, _)
SpentOf(rs, config, user_id) ==
    IF rs = <<>> THEN 0
    ELSE (IF InWindow(Head(rs), config.period) /\ InScope(Head(rs), config.scope, user_id)
          THEN Head(rs).total_cost ELSE 0) + SpentOf(Tail(rs), config, user_id)
ReachedWith(rs, user_id, pct) ==
    \E i \in 1..Len(budgets) :
        /\ budgets[i].limit > 0
        /\ SpentOf(rs, budgets[i], user_id) * 100 >= pct * budgets[i].limit

\* The invocations of callback c for the threshold of percentage p.
Invocations(cs, c, p) == {m \in 1..Len(cs) : cs[m].callback = c /\ cs[m].msg.pct = p}

\* C25: a Meter.record call that returns has stored the record for the
\* effective user id; each threshold that had not fired and that some budget
\* is at or above after the call, as checked for that user id, fires in this
\* call, and every registered callback is invoked once for it; no callback
\* is invoked for any other threshold, so that without reset a callback is
\* invoked once per threshold, in the first call that reaches it.
C25_MeterRecordAlerts ==
    [][ (ret'.op = "meter_record" /\ ret'.raised = "none") =>
        LET uid == Effective(ret'.user_id)
        IN  /\ ret'.uid = uid
            /\ records' = Append(records, ret'.value)
            /\ ret'.value.user_id = uid
            /\ \A j \in 1..Len(thresholds) :
                 LET fires == /\ ~thresholds[j].triggered
                              /\ ReachedWith(records', uid, thresholds[j].percentage)
                 IN  /\ thresholds'[j].triggered = (thresholds[j].triggered \/ fires)
                     /\ \A c \in 1..Len(callbacks) :
                          Cardinality(Invocations(calls', callbacks[c],
                                                  thresholds[j].percentage))
                            = IF fires THEN 1 ELSE 0 ]_vars

\* C25 witness: a Meter with default user bob recorded a response without a
\* user id after one for alice; the record is bob's, and the callback was
\* invoked for a threshold that the records of bob alone reach.
C25_Witness ==
    /\ ret.op = "meter_record"
    /\ ret.raised = "none"
    /\ default_user_id = "bob"
    /\ ret.user_id = None
    /\ ret.value.user_id = "bob"
    /\ \E k \in 1..Len(records) : records[k].user_id = "alice"
    /\ Len(callbacks) > 0
    /\ Len(calls) > 0
    /\ \E j \in 1..Len(thresholds) : ~thresholds[j].triggered

\* The armed thresholds of a percentage.
Armed(p) == {j \in 1..Len(thresholds) : thresholds[j].percentage = p /\ ~thresholds[j].triggered}

\* C26: the thresholds are shared by the budgets.  A check_and_notify call
\* returns, for each percentage, at most as many messages as there are armed
\* thresholds of it, however many budgets are at or above it, and each
\* message is for the first budget in configuration order at or above the
\* percentage; a threshold that has fired produces no message and stays
\* fired through every operation but reset() and set_thresholds().
C26_SharedThresholds ==
    [][ /\ NotifyStep =>
            /\ Len(ret'.value) <= Cardinality({j \in 1..Len(thresholds) :
                                                 ~thresholds[j].triggered})
            /\ \A p \in {thresholds[j].percentage : j \in 1..Len(thresholds)} :
                 LET msgs == {m \in 1..Len(ret'.value) : ret'.value[m].pct = p}
                 IN  /\ Cardinality(msgs) <= Cardinality(Armed(p))
                     /\ \A m \in msgs :
                          \E i \in 1..Len(budgets) :
                              /\ AtOrAbove(budgets[i], ret'.user_id, p)
                              /\ \A h \in 1..(i - 1) : ~AtOrAbove(budgets[h], ret'.user_id, p)
                              /\ ret'.value[m].limit = budgets[i].limit
                              /\ ret'.value[m].period = budgets[i].period
                              /\ ret'.value[m].scope = budgets[i].scope
        /\ ret'.op \notin {"reset", "set_thresholds"} =>
            /\ Len(thresholds') = Len(thresholds)
            /\ \A j \in 1..Len(thresholds) :
                 /\ thresholds'[j].percentage = thresholds[j].percentage
                 /\ thresholds[j].triggered => thresholds'[j].triggered ]_vars

\* C26 witness: a check_and_notify call found two budgets at or above the
\* same armed threshold and returned one message for it, for the first one.
C26_Witness ==
    /\ NotifyDone
    /\ Len(budgets) = 2
    /\ budgets[1] # budgets[2]
    /\ Len(thresholds) = 1
    /\ Len(ret.value) = 1
    /\ \A i \in 1..2 : AtOrAbove(budgets[i], None, thresholds[1].percentage)
    /\ ret.value[1].limit = budgets[1].limit
    /\ ret.value[1].period = budgets[1].period

\* The step is a record or record_manual call that raised.
RecordingFailed == ret'.op \in {"record", "record_manual"} /\ ret'.raised # "none"

\* C27: a record call that raises ValueError (no provider matches) or
\* UnknownModelError, and a record_manual call that raises
\* UnknownModelError, save nothing: the store holds the same records, and an
\* unfiltered query, the totals of every user, the summaries and the status
\* of every budget are what they were before the call.
C27_FailedRecordingSavesNothing ==
    [][ RecordingFailed =>
        /\ ret'.raised \in {"ValueError", "UnknownModelError"}
        /\ records' = records
        /\ QueryAll' = QueryAll
        /\ \A u \in {None, "alice"} :
             /\ get_total(u, None, Absent)' = get_total(u, None, Absent)
             /\ \A i \in 1..Len(budgets) :
                  check_one(budgets[i], u)' = check_one(budgets[i], u)
        /\ \A g \in GroupBys : get_summary(g)' = get_summary(g)
        /\ budgets' = budgets ]_vars

\* C27 witness: record raised for a response no provider matches, with a
\* record in the store and a budget configured.
C27_Witness ==
    /\ ret.op = "record"
    /\ ret.raised = "ValueError"
    /\ Len(records) = 1
    /\ Len(budgets) > 0

\* C28: when enforce(c, user_id) has returned and the next operation saves
\* one record of total_cost <= c, at the same time of the clock, every block
\* budget still has a spent amount, as check(user_id) counts it, that is at
\* most its limit.
C28_EnforceThenRecord ==
    [][ (/\ ret.op = "enforce" /\ ret.raised = "none"
         /\ ret'.op = "record_manual" /\ ret'.raised = "none"
         /\ records' = Append(records, ret'.value)
         /\ ret'.value.total_cost <= ret.cost)
        => \A i \in 1..Len(budgets) :
             budgets[i].action = "block" /\ ~PeriodRaises(budgets[i].period)
               => SpentOf(records', budgets[i], ret.user_id) <= budgets[i].limit ]_vars

\* C28 witness: with a record in the store that a block budget of alice does
\* not count, enforce returned for a cost that brings that budget exactly to
\* its limit, and a record can follow.
C28_Witness ==
    /\ ret.op = "enforce"
    /\ ret.raised = "none"
    /\ ret.cost > 0
    /\ created < MaxRecords
    /\ Len(records) > 0
    /\ \E i \in 1..Len(budgets) :
         /\ budgets[i].action = "block"
         /\ budgets[i].scope = "user:alice"
         /\ Spent(budgets[i], ret.user_id) + ret.cost = budgets[i].limit

\* C29: check, would_exceed and enforce, whether they return or raise,
\* leave the stored records, the budget list and the thresholds as they are;
\* check_and_notify leaves the records, the budgets and the callbacks as they
\* are, keeps the thresholds and their percentages, and changes a triggered
\* flag only from false to true.
C29_ChecksReadOnly ==
    [][ /\ ret'.op \in {"check", "would_exceed", "enforce"} =>
            /\ records' = records
            /\ budgets' = budgets
            /\ thresholds' = thresholds
            /\ callbacks' = callbacks
            /\ <<jsonl, db>>' = <<jsonl, db>>
        /\ ret'.op = "check_and_notify" =>
            /\ records' = records
            /\ budgets' = budgets
            /\ callbacks' = callbacks
            /\ <<jsonl, db>>' = <<jsonl, db>>
            /\ Len(thresholds') = Len(thresholds)
            /\ \A j \in 1..Len(thresholds) :
                 /\ thresholds'[j].percentage = thresholds[j].percentage
                 /\ thresholds[j].triggered => thresholds'[j].triggered ]_vars

\* C29 witness: enforce raised BudgetExceededError while the store held
\* records and some thresholds had fired, others not.
C29_Witness ==
    /\ ret.op = "enforce"
    /\ ret.raised = "BudgetExceededError"
    /\ Len(records) > 0
    /\ \E j \in 1..Len(thresholds) : thresholds[j].triggered
    /\ \E j \in 1..Len(thresholds) : ~thresholds[j].triggered

\* C30: check reports a budget of limit 0 with is_exceeded true, utilization
\* 0 and remaining 0, whatever was spent; and no message of check_and_notify
\* for a threshold above 0% is for a budget of limit 0.
C30_ZeroLimit ==
    /\ (ret.op = "check" /\ ret.raised = "none") =>
          \A i \in 1..Len(ret.value) :
              ret.value[i].config.limit = 0 =>
                  /\ ret.value[i].is_exceeded
                  /\ ret.value[i].utilization.num = 0
                  /\ ret.value[i].remaining = 0
                  /\ ret.value[i].spent = Spent(budgets[i], ret.user_id)
    /\ NotifyDone =>
          /\ \A m \in 1..Len(ret.value) : ret.value[m].limit = 0 => ret.value[m].pct <= 0
          /\ (\A i \in 1..Len(budgets) : budgets[i].limit = 0) =>
                \A m \in 1..Len(ret.value) : ret.value[m].pct <= 0

\* C30 witness: with only a budget of limit 0 that counts two records,
\* check_and_notify fired the threshold of 0% and left the one of 50% armed.
C30_Witness ==
    /\ NotifyDone
    /\ Len(budgets) = 1
    /\ budgets[1].limit = 0
    /\ Spent(budgets[1], ret.user_id) = 600000
    /\ Len(ret.value) = 1
    /\ ret.value[1].pct = 0
    /\ \E j \in 1..Len(thresholds) : thresholds[j].percentage = 50 /\ ~thresholds[j].triggered

====
